---- MODULE Spec2Model ----
(***************************************************************************)
(* har-api-extract: the HAR entry classifier (parser.ts), the record       *)
(* normaliser and the report serialisers (formatter.ts) and the har command *)
(* (har.ts), as a state machine over one invocation: read -> filter ->     *)
(* formatEntry -> report.  JavaScript values are modelled as tagged records, *)
(* strings are TLA+ strings, and a function that can throw returns a       *)
(* completion record.                                                      *)
(* The background worker of the browser extension (background.js) is a     *)
(* second state machine, SpecCapture, over the messages of the popup, the  *)
(* events of the debugger and the completions of the debugger commands.    *)
(***************************************************************************)
EXTENDS Integers, Sequences, FiniteSets, TLC

VARIABLES entries, pc, selected, formatted, sections, output, format, lastCall,
          file, stderr, exitCode

\* the state of the background worker of the extension (background.js) and
\* of the browser it talks to
VARIABLES debuggeeId, capturedRequests, isCapturing, heap, commands, calls,
          listening, attached, network, answer, cuts, inputs

cliVars == <<entries, pc, selected, formatted, sections, output, format,
             lastCall, file, stderr, exitCode>>

captureVars == <<debuggeeId, capturedRequests, isCapturing, heap, commands,
                 calls, listening, attached, network, answer, cuts,
                 inputs>>

vars == <<cliVars, captureVars>>

(***************************************************************************)
(* Bounds of the model.                                                    *)
(***************************************************************************)
MaxHeaders == 2
MaxEntries == 2
PadSlack == 1
MaxInputs == 5

(***************************************************************************)
(* String primitives of the JavaScript runtime.                            *)
(***************************************************************************)
\* String.prototype.includes
Includes(s, sub) ==
  \E i \in 0..(Len(s) - Len(sub)) : SubSeq(s, i + 1, i + Len(sub)) = sub

StartsWith(s, pre) ==
  Len(s) >= Len(pre) /\ SubSeq(s, 1, Len(pre)) = pre

LowerChar(c) ==
  CASE c = "A" -> "a" [] c = "B" -> "b" [] c = "C" -> "c" [] c = "D" -> "d"
    [] c = "E" -> "e" [] c = "F" -> "f" [] c = "G" -> "g" [] c = "H" -> "h"
    [] c = "I" -> "i" [] c = "J" -> "j" [] c = "K" -> "k" [] c = "L" -> "l"
    [] c = "M" -> "m" [] c = "N" -> "n" [] c = "O" -> "o" [] c = "P" -> "p"
    [] c = "Q" -> "q" [] c = "R" -> "r" [] c = "S" -> "s" [] c = "T" -> "t"
    [] c = "U" -> "u" [] c = "V" -> "v" [] c = "W" -> "w" [] c = "X" -> "x"
    [] c = "Y" -> "y" [] c = "Z" -> "z" [] OTHER -> c

\* String.prototype.toLowerCase
RECURSIVE toLowerCase(_)
toLowerCase(s) ==
  IF s = "" THEN ""
  ELSE LowerChar(SubSeq(s, 1, 1)) \o toLowerCase(SubSeq(s, 2, Len(s)))

\* String.prototype.repeat
RECURSIVE Repeat(_, _)
Repeat(c, n) ==
  IF n <= 0 THEN ""
  ELSE IF n % 2 = 1 THEN c \o Repeat(c, n - 1)
  ELSE LET h == Repeat(c, n \div 2) IN h \o h

\* the characters a regular expression matches with \s and with \w
SpaceChars == {" ", "\n", "\t", "\r"}
WordChars ==
  { "a", "b", "c", "d", "e", "f", "g", "h", "i", "j", "k", "l", "m", "n", "o",
    "p", "q", "r", "s", "t", "u", "v", "w", "x", "y", "z",
    "A", "B", "C", "D", "E", "F", "G", "H", "I", "J", "K", "L", "M", "N", "O",
    "P", "Q", "R", "S", "T", "U", "V", "W", "X", "Y", "Z",
    "0", "1", "2", "3", "4", "5", "6", "7", "8", "9", "_" }

\* the first position from i on whose character is not in chars
RECURSIVE SkipWhile(_, _, _)
SkipWhile(s, i, chars) ==
  IF i <= Len(s) /\ SubSeq(s, i, i) \in chars
  THEN SkipWhile(s, i + 1, chars) ELSE i

\* the first position from i on whose character is c
RECURSIVE SkipUntil(_, _, _)
SkipUntil(s, i, c) ==
  IF i <= Len(s) /\ SubSeq(s, i, i) # c THEN SkipUntil(s, i + 1, c) ELSE i

\* the last position up to i whose character is not in chars
RECURSIVE SkipBack(_, _, _)
SkipBack(s, i, chars) ==
  IF i >= 1 /\ SubSeq(s, i, i) \in chars
  THEN SkipBack(s, i - 1, chars) ELSE i

\* String.prototype.trim
Trim(s) == SubSeq(s, SkipWhile(s, 1, SpaceChars), SkipBack(s, Len(s), SpaceChars))

\* String.prototype.substring(0, n)
Substring0(s, n) == IF Len(s) <= n THEN s ELSE SubSeq(s, 1, n)

\* Array.prototype.join
RECURSIVE Join(_, _)
Join(strs, sep) ==
  IF Len(strs) = 0 THEN ""
  ELSE IF Len(strs) = 1 THEN strs[1]
  ELSE LET h == Len(strs) \div 2
       IN Join(SubSeq(strs, 1, h), sep) \o sep
            \o Join(SubSeq(strs, h + 1, Len(strs)), sep)

(***************************************************************************)
(* JavaScript values: undefined, null, booleans, numbers, strings, arrays  *)
(* and objects (keys in insertion order).                                  *)
(***************************************************************************)
JVal(t, b, n, s, ks, vs) ==
  [t |-> t, b |-> b, n |-> n, s |-> s, ks |-> ks, vs |-> vs]

JUndefined == JVal("undefined", FALSE, 0, "", <<>>, <<>>)
JNull == JVal("null", FALSE, 0, "", <<>>, <<>>)
JBool(b) == JVal("boolean", b, 0, "", <<>>, <<>>)
JNum(n) == JVal("number", FALSE, n, "", <<>>, <<>>)
JStr(s) == JVal("string", FALSE, 0, s, <<>>, <<>>)
JArr(vs) == JVal("array", FALSE, 0, "", <<>>, vs)
JObj(ks, vs) == JVal("object", FALSE, 0, "", ks, vs)

\* ToBoolean: the falsy values are undefined, null, false, 0 and "".
Truthy(v) ==
  CASE v.t = "undefined" -> FALSE
    [] v.t = "null" -> FALSE
    [] v.t = "boolean" -> v.b
    [] v.t = "number" -> v.n # 0
    [] v.t = "string" -> v.s # ""
    [] OTHER -> TRUE

\* A completion: a returned value or a thrown TypeError/SyntaxError.
Return(v) == [raised |-> FALSE, value |-> v]
Throw(v) == [raised |-> TRUE, value |-> v]

\* v.key (property read): throws on undefined and null, yields undefined for
\* a missing key and for the primitives.
GetProp(v, key) ==
  IF v.t \in {"undefined", "null"} THEN Throw(JUndefined)
  ELSE IF v.t = "object" /\ \E i \in DOMAIN v.ks : v.ks[i] = key
       THEN Return(v.vs[CHOOSE i \in DOMAIN v.ks : v.ks[i] = key])
       ELSE Return(JUndefined)

\* v?.key (optional chaining): undefined instead of a throw.
GetPropOpt(v, key) ==
  IF v.t \in {"undefined", "null"} THEN JUndefined ELSE GetProp(v, key).value

\* Object.keys(v).length
KeyCount(v) == IF v.t = "object" THEN Len(v.ks)
               ELSE IF v.t = "array" THEN Len(v.vs)
               ELSE IF v.t = "string" THEN Len(v.s) ELSE 0

EscapeChar(c) ==
  CASE c = "\"" -> "\\\"" [] c = "\\" -> "\\\\" [] c = "\n" -> "\\n" [] OTHER -> c

RECURSIVE Escape(_)
Escape(s) ==
  IF s = "" THEN ""
  ELSE IF Len(s) = 1 THEN EscapeChar(s)
  ELSE LET h == Len(s) \div 2
       IN Escape(SubSeq(s, 1, h)) \o Escape(SubSeq(s, h + 1, Len(s)))

Quote(s) == "\"" \o Escape(s) \o "\""

\* JSON.stringify(v)
RECURSIVE Stringify(_)
Stringify(v) ==
  CASE v.t = "null" -> "null"
    [] v.t = "boolean" -> (IF v.b THEN "true" ELSE "false")
    [] v.t = "number" -> ToString(v.n)
    [] v.t = "string" -> Quote(v.s)
    [] v.t = "array" ->
         "[" \o Join([i \in DOMAIN v.vs |-> Stringify(v.vs[i])], ",") \o "]"
    [] v.t = "object" ->
         "{" \o Join([i \in DOMAIN v.ks |->
                        Quote(v.ks[i]) \o ":" \o Stringify(v.vs[i])], ",") \o "}"
    [] OTHER -> "undefined"

\* JSON.stringify(v, null, 2), at indentation ind
RECURSIVE Pretty(_, _)
Pretty(v, ind) ==
  CASE v.t = "array" /\ Len(v.vs) > 0 ->
         "[\n"
         \o Join([i \in DOMAIN v.vs |->
                    Repeat(" ", ind + 2) \o Pretty(v.vs[i], ind + 2)], ",\n")
         \o "\n" \o Repeat(" ", ind) \o "]"
    [] v.t = "object" /\ Len(v.ks) > 0 ->
         "{\n"
         \o Join([i \in DOMAIN v.ks |->
                    Repeat(" ", ind + 2) \o Quote(v.ks[i]) \o ": "
                    \o Pretty(v.vs[i], ind + 2)], ",\n")
         \o "\n" \o Repeat(" ", ind) \o "}"
    [] OTHER -> Stringify(v)

JSONStringify2(v) == Pretty(v, 0)


(***************************************************************************)
(* JSON.parse on the texts of the model: a text is valid JSON exactly when *)
(* it is the compact or the indented serialisation of a value of           *)
(* JSONValues; every other text of BodyTexts is chosen to be invalid JSON. *)
(***************************************************************************)
TruncateAt == 1000

EmptyObj == JObj(<<>>, <<>>)
GqlFull ==
  JObj(<<"operationName", "query", "variables">>,
       <<JStr("GetUsers"), JStr("query GetUsers { users { id } }"), EmptyObj>>)
GqlVars ==
  JObj(<<"operationName", "query", "variables">>,
       <<JStr("GetUser"), JStr("..."), JObj(<<"id">>, <<JStr("123")>>)>>)
GqlQueryOnly == JObj(<<"query">>, <<JStr("{ me }")>>)
GqlOpOnly == JObj(<<"operationName">>, <<JStr("Ping")>>)
GqlFalsy == JObj(<<"operationName", "query">>, <<JStr(""), JStr("")>>)
RestObj == JObj(<<"data">>, <<JStr("test")>>)
UsersObj == JObj(<<"users">>, <<JArr(<<>>)>>)
\* a GraphQL body with an empty query, and one with null variables
GqlEmptyQuery == JObj(<<"operationName", "query">>, <<JStr("Ping"), JStr("")>>)
GqlNullVars == JObj(<<"query", "variables">>, <<JStr("{ me }"), JNull>>)
\* a GraphQL response, and a search request whose query field is a structure
DataObj == JObj(<<"data">>, <<JObj(<<"users", "total">>, <<JArr(<<>>), JNum(0)>>)>>)
SearchObj == JObj(<<"query">>, <<JObj(<<"match_all">>, <<EmptyObj>>)>>)

\* the lengths of the filler of the bodies around the 1000-character cap
LargeLens == (TruncateAt - 2 - PadSlack)..(TruncateAt - 2 + PadSlack)

SmallValues ==
  { JNull, JBool(FALSE), JBool(TRUE), JNum(0), JNum(1), JStr(""), JStr("abc"),
    JArr(<<>>), JArr(<<JNum(1)>>), EmptyObj,
    GqlFull, GqlVars, GqlQueryOnly, GqlOpOnly, GqlFalsy, RestObj, UsersObj,
    DataObj, SearchObj, GqlEmptyQuery, GqlNullVars }

LargeValues ==
  { JObj(<<"data">>, <<JStr(Repeat("x", n - 14))>>) : n \in LargeLens }

JSONValues == SmallValues \cup LargeValues

JSONTexts ==
  { [text |-> Stringify(v), value |-> v] : v \in JSONValues }
  \cup { [text |-> JSONStringify2(v), value |-> v] : v \in JSONValues }

\* JSON.parse(text): the decoded value, or a SyntaxError
JSONParse(text) ==
  IF \E e \in JSONTexts : e.text = text
  THEN Return((CHOOSE e \in JSONTexts : e.text = text).value)
  ELSE Throw(JUndefined)

\* try { c } catch { h }
TryCatch(c, h) == IF c.raised THEN h ELSE c

\* a || b
Or(a, b) == IF Truthy(a) THEN a ELSE b

InvalidTexts == {"", "invalid json", "{\"query\":"}
SmallTexts ==
  { Stringify(v) : v \in SmallValues } \cup {JSONStringify2(UsersObj)}
  \cup InvalidTexts
LargeTexts ==
  { Repeat("x", n) : n \in LargeLens } \cup { Stringify(v) : v \in LargeValues }
BodyTexts == SmallTexts \cup LargeTexts

(***************************************************************************)
(* HAR entries (types.ts).  An optional field is <<>> when absent and <<x>>*)
(* when present.                                                           *)
(***************************************************************************)
None == <<>>
Some(x) == <<x>>

\* the JavaScript value of an optional string field
OptStr(o) == IF o = None THEN JUndefined ELSE JStr(o[1])

Header(n, v) == [name |-> n, value |-> v]
PostData(m, t) == [mimeType |-> m, text |-> t]

HAREntry(url, headers, postData, mimeType, text) ==
  [ startedDateTime |-> "2024-01-01T00:00:00Z",
    time |-> 150400,
    request |-> [method |-> "POST", url |-> url, headers |-> headers,
                 postData |-> postData],
    response |-> [status |-> 200,
                  content |-> [mimeType |-> mimeType, text |-> text]] ]

(***************************************************************************)
(* Classifier (parser.ts).                                                 *)
(***************************************************************************)
\* FindContentType with a case-sensitive comparison of the header name
FindContentType_CaseSensitive(headers) ==
  LET hits == { i \in DOMAIN headers : headers[i].name = "content-type" }
  IN IF hits = {} THEN 0 ELSE CHOOSE i \in hits : \A j \in hits : i <= j

\* headers.find(h => h.name.toLowerCase() === "content-type"): the index of
\* the first match, 0 when there is none
FindContentType(headers) ==
  LET hits == { i \in DOMAIN headers :
                  toLowerCase(headers[i].name) = "content-type" }
  IN IF hits = {} THEN 0 ELSE CHOOSE i \in hits : \A j \in hits : i <= j

\* headers.find(...)?.value
ContentTypeHeader(headers) ==
  LET i == FindContentType(headers)
  IN IF i = 0 THEN JUndefined ELSE JStr(headers[i].value)

\* entry.request.postData?.mimeType
PostDataMimeType(entry) ==
  IF entry.request.postData = None THEN JUndefined
  ELSE JStr(entry.request.postData[1].mimeType)

\* entry.request.postData?.text
PostDataText(entry) ==
  IF entry.request.postData = None THEN JUndefined
  ELSE JStr(entry.request.postData[1].text)

\* const contentType = postData?.mimeType || headers.find(...)?.value || ""
RequestContentType(entry) ==
  Or(Or(PostDataMimeType(entry), ContentTypeHeader(entry.request.headers)),
     JStr("")).s

isJSONRequest(entry) ==
  Return(Includes(RequestContentType(entry), "application/json"))

\* src/parser.ts: mimeType.includes(...) on an absent mimeType throws
isJSONResponse(entry) ==
  LET mimeType == OptStr(entry.response.content.mimeType)
  IN IF mimeType.t = "undefined" THEN Throw(FALSE)
     ELSE Return(Includes(mimeType.s, "application/json"))

\* parser.ts (root): mimeType?.includes(...) || false
isJSONResponse_root(entry) ==
  LET mimeType == OptStr(entry.response.content.mimeType)
  IN IF mimeType.t = "undefined" THEN Return(FALSE)
     ELSE Return(Includes(mimeType.s, "application/json"))

\* chrome-extension/formatter.js
isJSONResponse_ext(entry) ==
  LET mimeType == OptStr(entry.response.content.mimeType)
  IN IF mimeType.t = "undefined" THEN Return(FALSE)
     ELSE Return(Includes(mimeType.s, "application/json"))

\* !!(parsed.operationName || parsed.query)
HasGraphQLField(parsed) ==
  LET op == GetProp(parsed, "operationName")
  IN IF op.raised THEN Throw(FALSE)
     ELSE IF Truthy(op.value) THEN Return(TRUE)
     ELSE Return(Truthy(GetProp(parsed, "query").value))

\* isGraphQLRequest without the isJSONRequest guard
isGraphQLRequest_NoJSONGuard(entry) ==
  LET postData == PostDataText(entry)
  IN IF ~Truthy(postData) THEN Return(FALSE)
     ELSE LET parsed == JSONParse(postData.s)
          IN TryCatch(IF parsed.raised THEN Throw(FALSE)
                      ELSE HasGraphQLField(parsed.value),
                      Return(FALSE))

\* isGraphQLRequest without the try/catch around the parse and field reads
isGraphQLRequest_NoCatch(entry) ==
  IF ~isJSONRequest(entry).value THEN Return(FALSE)
  ELSE LET postData == PostDataText(entry)
       IN IF ~Truthy(postData) THEN Return(FALSE)
          ELSE LET parsed == JSONParse(postData.s)
               IN IF parsed.raised THEN Throw(FALSE)
                  ELSE HasGraphQLField(parsed.value)

isGraphQLRequest(entry) ==
  IF ~isJSONRequest(entry).value THEN Return(FALSE)
  ELSE LET postData == PostDataText(entry)
       IN IF ~Truthy(postData) THEN Return(FALSE)
          ELSE LET parsed == JSONParse(postData.s)
               IN TryCatch(IF parsed.raised THEN Throw(FALSE)
                           ELSE HasGraphQLField(parsed.value),
                           Return(FALSE))

\* the predicate handed to entries.filter
FilterPredicate(entry) ==
  LET req == isJSONRequest(entry)
      res == IF req.value THEN req ELSE isJSONResponse(entry)
  IN IF res.raised THEN Throw(FALSE)
     ELSE Return(res.value /\ entry.response.content.text # None)

filterJSONAndGraphQLEntries(es) ==
  IF \E i \in DOMAIN es : FilterPredicate(es[i]).raised
  THEN Throw(<<>>)
  ELSE LET Test(e) == FilterPredicate(e).value
       IN Return(SelectSeq(es, Test))

(***************************************************************************)
(* Formatter (formatter.ts): normalisation and the tagged report.          *)
(***************************************************************************)
\* Math.round with a half going to the smaller integer
MathRound_HalfDown(thousandths) == (thousandths + 499) \div 1000

\* Math.round on a time given in thousandths of a millisecond: the nearest
\* integer, a half going to the greater one
MathRound(thousandths) == (thousandths + 500) \div 1000

\* String(v), as a template literal and Array.prototype.join apply it
RECURSIVE ToJSString(_)
ToJSString(v) ==
  CASE v.t = "string" -> v.s
    [] v.t = "number" -> ToString(v.n)
    [] v.t = "boolean" -> (IF v.b THEN "true" ELSE "false")
    [] v.t = "null" -> "null"
    [] v.t = "array" ->
         Join([i \in DOMAIN v.vs |->
                 IF v.vs[i].t \in {"null", "undefined"} THEN ""
                 ELSE ToJSString(v.vs[i])], ",")
    [] v.t = "object" -> "[object Object]"
    [] OTHER -> "undefined"

parseJSONSafely(text) ==
  IF ~Truthy(text) THEN JUndefined
  ELSE TryCatch(JSONParse(text.s), Return(text)).value

\* formatEntry taking isGraphQL from the classifier instead of the decoded body
formatEntry_ByClassifier(entry, index) ==
  LET requestBody == parseJSONSafely(PostDataText(entry))
      responseBody == parseJSONSafely(OptStr(entry.response.content.text))
  IN [ index |-> index + 1,
       timestamp |-> entry.startedDateTime,
       duration |-> MathRound(entry.time),
       method |-> entry.request.method,
       url |-> entry.request.url,
       status |-> entry.response.status,
       requestBody |-> requestBody,
       responseBody |-> responseBody,
       isGraphQL |-> isGraphQLRequest(entry).value,
       operationName |-> GetPropOpt(requestBody, "operationName") ]

formatEntry(entry, index) ==
  LET requestBody == parseJSONSafely(PostDataText(entry))
      responseBody == parseJSONSafely(OptStr(entry.response.content.text))
      isGraphQL == Truthy(Or(GetPropOpt(requestBody, "operationName"),
                             GetPropOpt(requestBody, "query")))
  IN [ index |-> index + 1,
       timestamp |-> entry.startedDateTime,
       duration |-> MathRound(entry.time),
       method |-> entry.request.method,
       url |-> entry.request.url,
       status |-> entry.response.status,
       requestBody |-> requestBody,
       responseBody |-> responseBody,
       isGraphQL |-> isGraphQL,
       operationName |-> GetPropOpt(requestBody, "operationName") ]

\* CountGraphQL counting the records that have an operation name
CountGraphQL_ByOperationName(records, g) ==
  Cardinality({ i \in DOMAIN records : Truthy(records[i].operationName) = g })

\* the count of the records that satisfy isGraphQL = g
CountGraphQL(records, g) ==
  Cardinality({ i \in DOMAIN records : records[i].isGraphQL = g })

\* RequestSections with a variables block for every truthy variables value
RequestSections_EmptyVariables(entry) ==
  IF entry.isGraphQL /\ Truthy(GetPropOpt(entry.requestBody, "query"))
  THEN LET variables == GetProp(entry.requestBody, "variables").value
       IN << "  <graphql_query>",
             ToJSString(GetProp(entry.requestBody, "query").value),
             "  </graphql_query>" >>
          \o (IF Truthy(variables)
              THEN << "  <variables>", JSONStringify2(variables),
                      "  </variables>" >>
              ELSE << >>)
  ELSE IF Truthy(entry.requestBody)
  THEN << "  <request_body>", JSONStringify2(entry.requestBody),
          "  </request_body>" >>
  ELSE << >>

\* the lines of the GraphQL query and variables blocks, or of the generic
\* request body block
RequestSections(entry) ==
  IF entry.isGraphQL /\ Truthy(GetPropOpt(entry.requestBody, "query"))
  THEN LET variables == GetProp(entry.requestBody, "variables").value
       IN << "  <graphql_query>",
             ToJSString(GetProp(entry.requestBody, "query").value),
             "  </graphql_query>" >>
          \o (IF Truthy(variables) /\ KeyCount(variables) > 0
              THEN << "  <variables>", JSONStringify2(variables),
                      "  </variables>" >>
              ELSE << >>)
  ELSE IF Truthy(entry.requestBody)
  THEN << "  <request_body>", JSONStringify2(entry.requestBody),
          "  </request_body>" >>
  ELSE << >>

\* ResponseSections cutting at responseStr.length >= 1000
ResponseSections_CapOffByOne(entry) ==
  IF Truthy(entry.responseBody)
  THEN LET responseStr == JSONStringify2(entry.responseBody)
       IN << "  <response>",
             IF Len(responseStr) >= TruncateAt
             THEN SubSeq(responseStr, 1, TruncateAt) \o "\n... [truncated]"
             ELSE responseStr,
             "  </response>" >>
  ELSE << >>

\* the lines of the response block
ResponseSections(entry) ==
  IF Truthy(entry.responseBody)
  THEN LET responseStr == JSONStringify2(entry.responseBody)
       IN << "  <response>",
             IF Len(responseStr) > TruncateAt
             THEN SubSeq(responseStr, 1, TruncateAt) \o "\n... [truncated]"
             ELSE responseStr,
             "  </response>" >>
  ELSE << >>

\* RequestUnit pushing the operation line after the request body section
RequestUnit_OperationAfterBody(entry) ==
  << "\n<request index=\"" \o ToString(entry.index) \o "\" type=\""
       \o (IF entry.isGraphQL THEN "graphql" ELSE "rest") \o "\">",
     "  <url method=\"" \o entry.method \o "\">" \o entry.url \o "</url>",
     "  <status code=\"" \o ToString(entry.status) \o "\" duration=\""
       \o ToString(entry.duration) \o "ms\"/>" >>
  \o RequestSections(entry)
  \o (IF entry.isGraphQL /\ Truthy(entry.operationName)
      THEN << "  <operation>" \o ToJSString(entry.operationName)
              \o "</operation>" >>
      ELSE << >>)
  \o ResponseSections(entry)
  \o << "</request>" >>

\* the body of entries.forEach: the lines pushed for one record
RequestUnit(entry) ==
  << "\n<request index=\"" \o ToString(entry.index) \o "\" type=\""
       \o (IF entry.isGraphQL THEN "graphql" ELSE "rest") \o "\">",
     "  <url method=\"" \o entry.method \o "\">" \o entry.url \o "</url>",
     "  <status code=\"" \o ToString(entry.status) \o "\" duration=\""
       \o ToString(entry.duration) \o "ms\"/>" >>
  \o (IF entry.isGraphQL /\ Truthy(entry.operationName)
      THEN << "  <operation>" \o ToJSString(entry.operationName)
              \o "</operation>" >>
      ELSE << >>)
  \o RequestSections(entry)
  \o ResponseSections(entry)
  \o << "</request>" >>

RECURSIVE ConcatUnits(_)
ConcatUnits(records) ==
  IF Len(records) = 0 THEN << >>
  ELSE RequestUnit(Head(records)) \o ConcatUnits(Tail(records))

\* the sections array of formatForLLM when it returns
formatForLLMSections(records) ==
  << "<api_requests total=\"" \o ToString(Len(records))
       \o "\" graphql=\"" \o ToString(CountGraphQL(records, TRUE))
       \o "\" rest=\"" \o ToString(CountGraphQL(records, FALSE)) \o "\">" >>
  \o ConcatUnits(records)
  \o << "\n</api_requests>" >>

formatForLLM(records) == Join(formatForLLMSections(records), "\n")

(***************************************************************************)
(* Formatter (formatter.ts, markdown report).                              *)
(***************************************************************************)
\* the code fence of the markdown report; the lexer of TLA+ has no backquote,
\* so the fence is written with apostrophes
Fence == "'''"

\* the lines of one record: the body of entries.forEach
RequestLines_md(entry) ==
  << "## Request #" \o ToString(entry.index) \o " "
       \o (IF entry.isGraphQL THEN "[GraphQL]" ELSE "[REST/JSON]"),
     "**URL:** " \o entry.method \o " " \o entry.url,
     "**Status:** " \o ToString(entry.status),
     "**Duration:** " \o ToString(entry.duration) \o "ms",
     "**Timestamp:** " \o entry.timestamp >>
  \o (IF entry.isGraphQL /\ Truthy(entry.operationName)
      THEN << "**Operation:** " \o ToJSString(entry.operationName) >>
      ELSE << >>)
  \o (IF entry.isGraphQL /\ Truthy(GetPropOpt(entry.requestBody, "query"))
      THEN LET variables == GetProp(entry.requestBody, "variables").value
           IN << "\n### GraphQL Query:", Fence \o "graphql",
                 ToJSString(GetProp(entry.requestBody, "query").value), Fence >>
              \o (IF Truthy(variables) /\ KeyCount(variables) > 0
                  THEN << "\n### Variables:", Fence \o "json",
                          JSONStringify2(variables), Fence >>
                  ELSE << >>)
      ELSE IF Truthy(entry.requestBody)
      THEN << "\n### Request Body:", Fence \o "json",
              JSONStringify2(entry.requestBody), Fence >>
      ELSE << >>)
  \o (IF Truthy(entry.responseBody)
      THEN LET responseStr == JSONStringify2(entry.responseBody)
           IN << "\n### Response Body:", Fence \o "json",
                 IF Len(responseStr) > TruncateAt
                 THEN SubSeq(responseStr, 1, TruncateAt) \o "\n... [truncated]"
                 ELSE responseStr,
                 Fence >>
      ELSE << >>)

RECURSIVE ConcatUnits_md(_)
ConcatUnits_md(records) ==
  IF Len(records) = 0 THEN << >>
  ELSE << Join(RequestLines_md(Head(records)), "\n"),
          "\n" \o Repeat("-", 80) \o "\n" >>
       \o ConcatUnits_md(Tail(records))

\* the sections array of the markdown formatForLLM when it returns
formatForLLMSections_md(records) ==
  << "# HAR File Analysis - API Requests Summary",
     "Total API Requests: " \o ToString(Len(records)),
     "GraphQL Requests: " \o ToString(CountGraphQL(records, TRUE)),
     "REST/JSON Requests: " \o ToString(CountGraphQL(records, FALSE)),
     "\n" \o Repeat("=", 80) \o "\n" >>
  \o ConcatUnits_md(records)

formatForLLM_md(records) == Join(formatForLLMSections_md(records), "\n")

(***************************************************************************)
(* Formatter (formatter.ts, compact overview).                             *)
(***************************************************************************)
CompactQueryLen == 80
CompactPreviewLen == 100

\* query.replace(/^(query|mutation|subscription)\s+\w+\s*(\([^)]*\))?\s*{/, '{')
ReplaceOperationHeader(query) ==
  LET keywords == { k \in {"query", "mutation", "subscription"} :
                      StartsWith(query, k) }
  IN IF keywords = {} THEN query
     ELSE LET afterKeyword == Len(CHOOSE k \in keywords : TRUE) + 1
              name == SkipWhile(query, afterKeyword, SpaceChars)
              afterName == SkipWhile(query, name, WordChars)
              paren == SkipWhile(query, afterName, SpaceChars)
              closing == SkipUntil(query, paren + 1, ")")
              afterGroup ==
                IF paren <= Len(query) /\ SubSeq(query, paren, paren) = "("
                   /\ closing <= Len(query) /\ SubSeq(query, closing, closing) = ")"
                THEN closing + 1 ELSE paren
              brace == SkipWhile(query, afterGroup, SpaceChars)
          IN IF name > afterKeyword /\ afterName > name
                /\ brace <= Len(query) /\ SubSeq(query, brace, brace) = "{"
             THEN SubSeq(query, brace, Len(query))
             ELSE query

\* Object.keys(v)
ObjectKeys(v) ==
  IF v.t = "object" THEN v.ks
  ELSE IF v.t = "array" THEN [i \in DOMAIN v.vs |-> ToString(i - 1)]
  ELSE IF v.t = "string" THEN [i \in 1..Len(v.s) |-> ToString(i - 1)]
  ELSE << >>

\* the lines of one record: the body of entries.forEach; a query that is not
\* a string has no replace method, and the call throws a TypeError
CompactLines(entry) ==
  LET prefix == IF entry.isGraphQL
                THEN "[GraphQL: "
                       \o ToJSString(Or(entry.operationName, JStr("unknown")))
                       \o "]"
                ELSE "[REST]"
      query == GetPropOpt(entry.requestBody, "query")
      data == GetPropOpt(entry.responseBody, "data")
  IN IF Truthy(query) /\ query.t # "string" THEN Throw(<< >>)
     ELSE Return(
       << prefix \o " " \o entry.method \o " " \o entry.url \o " -> "
            \o ToString(entry.status) \o " (" \o ToString(entry.duration)
            \o "ms)" >>
       \o (IF Truthy(query)
           THEN << "  Query: "
                   \o Substring0(Trim(ReplaceOperationHeader(query.s)),
                                  CompactQueryLen)
                   \o "..." >>
           ELSE << >>)
       \o (IF Truthy(data)
           THEN << "  Response keys: " \o Join(ObjectKeys(data), ", ") >>
           ELSE IF Truthy(entry.responseBody)
           THEN << "  Response: "
                   \o Substring0(Stringify(entry.responseBody),
                                  CompactPreviewLen)
                   \o "..." >>
           ELSE << >>)
       \o << "" >>)

RECURSIVE ConcatUnits_compact(_)
ConcatUnits_compact(records) ==
  IF Len(records) = 0 THEN Return(<< >>)
  ELSE LET unit == CompactLines(Head(records))
           rest == ConcatUnits_compact(Tail(records))
       IN IF unit.raised \/ rest.raised THEN Throw(<< >>)
          ELSE Return(unit.value \o rest.value)

\* the sections array of formatCompact when it returns, or the TypeError
formatCompactSections(records) ==
  LET units == ConcatUnits_compact(records)
  IN IF units.raised THEN units
     ELSE Return(
       << "# API Requests Overview",
          ToString(Len(records)) \o " total requests ("
            \o ToString(CountGraphQL(records, TRUE)) \o " GraphQL, "
            \o ToString(CountGraphQL(records, FALSE)) \o " REST)\n" >>
       \o units.value)

formatCompact(records) ==
  LET r == formatCompactSections(records)
  IN IF r.raised THEN Throw("") ELSE Return(Join(r.value, "\n"))

(***************************************************************************)
(* The inputs: bounded families of entry lists.                            *)
(***************************************************************************)
ContentTypes ==
  { "application/json", "application/json; charset=utf-8",
    "application/vnd.api+json", "application/ld+json", "text/html" }

HeaderChoices ==
  { Header(n, v) : n \in {"content-type", "Content-Type", "accept"},
                   v \in {"application/json", "text/html", ""} }

SeqsUpTo(S, n) == UNION { [1..k -> S] : k \in 0..n }

HeaderLists == SeqsUpTo(HeaderChoices, MaxHeaders)

\* header order and letter case, with and without a body MIME type
HeaderEntries ==
  { HAREntry("https://api.example.com/h", hs, pd, Some("text/html"), Some("{}")) :
      hs \in HeaderLists,
      pd \in {None} \cup { Some(PostData(m, Stringify(GqlQueryOnly))) :
                             m \in {"", "application/json", "text/plain"} } }

\* the content-type strings, in the header, the body and the response
ContentTypeEntries ==
  { HAREntry("https://api.example.com/c", hs, pd, mt, Some("{}")) :
      hs \in {<< >>} \cup { << Header("content-type", c) >> : c \in ContentTypes },
      pd \in {None} \cup { Some(PostData(c, "{}")) : c \in ContentTypes },
      mt \in {None} \cup { Some(c) : c \in ContentTypes } }

\* the body texts, under a JSON and a non-JSON request content type
BodyEntries ==
  { HAREntry("https://api.example.com/b", << >>, pd, Some("application/json"), tx) :
      pd \in {None} \cup { Some(PostData(m, t)) :
                             m \in {"application/json", "text/plain"},
                             t \in SmallTexts },
      tx \in {None} \cup { Some(t) : t \in SmallTexts } }

\* entries the filter keeps and drops
FilterEntries ==
  { HAREntry("https://api.example.com/f", << >>, pd, mt, tx) :
      pd \in {None, Some(PostData("application/json", "{}"))},
      mt \in {None, Some("application/json"), Some("text/html")},
      tx \in {None, Some(""), Some("{\"users\":[]}")} }

\* response bodies around the truncation cap
LargeEntries ==
  { HAREntry("https://api.example.com/l", << >>, None, Some("application/json"),
             Some(t)) :
      t \in { Stringify(v) : v \in LargeValues } \cup {"{\"users\":[]}"} }

\* response bodies that are no JSON, around the truncation cap
LargeStringEntries ==
  { HAREntry("https://api.example.com/l", << >>, None, Some("application/json"),
             Some(Repeat("x", n))) : n \in LargeLens }

\* kept and dropped entries, GraphQL and REST, that their URLs tell apart
OrderEntries ==
  { HAREntry(url, << >>, pd, Some(mt), Some("{}")) :
      url \in {"https://api.example.com/1", "https://api.example.com/2"},
      pd \in {None, Some(PostData("text/plain", Stringify(GqlQueryOnly)))},
      mt \in {"application/json", "text/html"} }

\* the entry times, in thousandths of a millisecond: 0, 150.4, 123.456, 1.5,
\* 2.5, 99.499, 99.5 and a negative half
Times == {0, 150400, 123456, 1500, 2500, 99499, 99500, -2500}

TimeEntries ==
  { [HAREntry("https://api.example.com/t", << >>, None,
              Some("application/json"), Some("{}")) EXCEPT !.time = t] :
      t \in Times }

Singletons(S) == { << e >> : e \in S }

Inputs ==
  Singletons(HeaderEntries) \cup Singletons(ContentTypeEntries)
  \cup Singletons(BodyEntries)
  \cup SeqsUpTo(FilterEntries, MaxEntries)
  \cup SeqsUpTo(LargeEntries, MaxEntries)
  \cup Singletons(LargeStringEntries)
  \cup SeqsUpTo(OrderEntries, MaxEntries)
  \cup Singletons(TimeEntries)

(***************************************************************************)
(* Reading the HAR file (parser.ts).  The content of the file is modelled  *)
(* by its state and, when it is JSON, by the entries it holds; the schema  *)
(* of types.ts requires response.content.mimeType.                         *)
(***************************************************************************)
FilePath == "capture.har"
FileStates == {"missing", "invalid-json", "ok"}

\* the text of the SyntaxError of JSON.parse("not valid json"), which
\* depends on the engine
SyntaxErrors ==
  { "SyntaxError: Unexpected token 'o', \"not valid json\" is not valid JSON",
    "SyntaxError: Unexpected token o in JSON at position 1" }

\* Effect.fail with a tagged error, and Effect.succeed
Fail(tag, message) ==
  [failed |-> TRUE,
   value |-> JObj(<<"_tag", "message">>, <<JStr(tag), JStr(message)>>)]
Succeed(v) == [failed |-> FALSE, value |-> v]

\* Schema.decodeUnknown(HARFile) on the fields of the model
SchemaValid(es) ==
  \A i \in DOMAIN es : es[i].response.content.mimeType # None

\* parseHARFile and readHARFile of the parser.ts at the root
parseHARFile(content, es) ==
  IF content = "invalid-json"
  THEN Fail("ParseError",
            "Invalid JSON format. Please ensure the file is a valid HAR file exported from browser DevTools.")
  ELSE IF ~SchemaValid(es)
  THEN Fail("ParseError",
            "Invalid HAR file structure. The file appears to be JSON but doesn't match the HAR (HTTP Archive) format. Please export a HAR file from your browser's Network tab.")
  ELSE Succeed(es)

readHARFile(state, es) ==
  IF state = "missing"
  THEN Fail("ReadError",
            "File not found: " \o FilePath
              \o "\n\nPlease check the file path and try again.")
  ELSE parseHARFile(state, es)

\* parseHARFile and readHARFile of src/parser.ts; the text of the schema
\* error is left out of the message
parseHARFile_src(content, es, syntaxError) ==
  IF content = "invalid-json"
  THEN Fail("ParseError", "Failed to parse JSON: " \o syntaxError)
  ELSE IF ~SchemaValid(es)
  THEN Fail("ParseError", "Invalid HAR format: ParseError")
  ELSE Succeed(es)

readHARFile_src(state, es, syntaxError) ==
  IF state = "missing"
  THEN Fail("ReadError",
            "Failed to read file: Error: ENOENT: no such file or directory, open '"
              \o FilePath \o "'")
  ELSE parseHARFile_src(state, es, syntaxError)

\* the tabs and the request ids of the capture layer, and the slots of the
\* messages that are being handled; the messages and the debugger events
\* that the worker is given are counted, MaxInputs at most
TabIds == {1}
RequestIds == 1..MaxInputs
Slots == 1..MaxInputs

\* a slot that holds no message
Free == [kind |-> "none", pc |-> "free", target |-> None]

\* the state of the worker when it is loaded: no capture, no request object,
\* no command in flight, no message being handled, no response sent, no
\* body cut so far, and no message or event received
CaptureIdle ==
  /\ debuggeeId = None
  /\ capturedRequests = << >>
  /\ isCapturing = FALSE
  /\ heap = << >>
  /\ commands = {}
  /\ calls = [slot \in Slots |-> Free]
  /\ listening = FALSE
  /\ attached = {}
  /\ network = [id \in RequestIds |-> "none"]
  /\ answer = None
  /\ cuts = {}
  /\ inputs = 0

(***************************************************************************)
(* The state machine.  pc: "start" -> a direct call of a classifier or of  *)
(* the filter ("returned", "raised"), or the run of the har command:       *)
(* "failed" when the file cannot be read or parsed, else "selected" ->     *)
(* "formatted" -> "printed", or "raised" when the handler throws.          *)
(***************************************************************************)
NoCall == [fn |-> "none", arg |-> 0, ret |-> Return(FALSE)]

Init ==
  /\ file \in FileStates
  /\ entries \in IF file = "ok" THEN Inputs ELSE {<< >>}
  /\ pc = "start"
  /\ selected = << >>
  /\ formatted = << >>
  /\ sections = << >>
  /\ output = ""
  /\ format = "none"
  /\ lastCall = NoCall
  /\ stderr = ""
  /\ exitCode = None
  /\ CaptureIdle

Call(fn, i, ret) ==
  /\ pc = "start"
  /\ pc' = "returned"
  /\ lastCall' = [fn |-> fn, arg |-> i, ret |-> ret]
  /\ UNCHANGED <<entries, selected, formatted, sections, output, format,
                 file, stderr, exitCode>>
  /\ UNCHANGED captureVars

CallIsJSONRequest ==
  \E i \in DOMAIN entries : Call("isJSONRequest", i, isJSONRequest(entries[i]))

CallIsJSONResponse ==
  \E i \in DOMAIN entries : Call("isJSONResponse", i, isJSONResponse(entries[i]))

CallIsJSONResponseRoot ==
  \E i \in DOMAIN entries :
    Call("isJSONResponse_root", i, isJSONResponse_root(entries[i]))

CallIsJSONResponseExt ==
  \E i \in DOMAIN entries :
    Call("isJSONResponse_ext", i, isJSONResponse_ext(entries[i]))

CallIsGraphQLRequest ==
  \E i \in DOMAIN entries :
    Call("isGraphQLRequest", i, isGraphQLRequest(entries[i]))

\* a direct call of filterJSONAndGraphQLEntries, on entries no schema has
\* decoded
CallFilter ==
  /\ pc = "start"
  /\ file = "ok"
  /\ LET r == filterJSONAndGraphQLEntries(entries)
     IN /\ pc' = IF r.raised THEN "raised" ELSE "returned"
        /\ selected' = r.value
  /\ lastCall' = [fn |-> "filterJSONAndGraphQLEntries", arg |-> 0,
                  ret |-> Return(FALSE)]
  /\ UNCHANGED <<entries, formatted, sections, output, format,
                 file, stderr, exitCode>>
  /\ UNCHANGED captureVars

\* har.ts: readHARFile fails, Effect.catchAll prints the error with
\* Console.error and the program succeeds
ReadFails ==
  /\ pc = "start"
  /\ \E syntaxError \in SyntaxErrors :
       \E r \in { readHARFile(file, entries),
                  readHARFile_src(file, entries, syntaxError) } :
         /\ r.failed
         /\ stderr' = "Error: " \o Stringify(r.value)
  /\ pc' = "failed"
  /\ exitCode' = Some(0)
  /\ UNCHANGED <<entries, selected, formatted, sections, output, format,
                 lastCall, file>>
  /\ UNCHANGED captureVars

\* Select that drops the entries without response text under --all too
Select_AllNeedsText ==
  /\ pc = "start"
  /\ ~readHARFile(file, entries).failed
  /\ \E all \in BOOLEAN :
       LET HasText(e) == e.response.content.text # None
           r == IF all THEN Return(SelectSeq(entries, HasText))
                ELSE filterJSONAndGraphQLEntries(entries)
       IN /\ pc' = IF r.raised THEN "raised" ELSE "selected"
          /\ selected' = r.value
          /\ exitCode' = IF r.raised THEN Some(1) ELSE None
          /\ stderr' = ""
          /\ lastCall' = [fn |-> IF all THEN "all" ELSE "filter", arg |-> 0,
                       ret |-> Return(FALSE)]
  /\ UNCHANGED <<entries, formatted, sections, output, format, file>>
  /\ UNCHANGED captureVars

\* har.ts: all ? harFile.log.entries : filterJSONAndGraphQLEntries(...);
\* an exception thrown inside Effect.map is a defect that catchAll does not
\* handle, and runMain exits with status 1
Select ==
  /\ pc = "start"
  /\ ~readHARFile(file, entries).failed
  /\ \E all \in BOOLEAN :
       LET r == IF all THEN Return(entries)
                ELSE filterJSONAndGraphQLEntries(entries)
       IN /\ pc' = IF r.raised THEN "raised" ELSE "selected"
          /\ selected' = r.value
          /\ exitCode' = IF r.raised THEN Some(1) ELSE None
          /\ stderr' = IF r.raised
                       THEN "TypeError: Cannot read properties of undefined (reading 'includes')"
                       ELSE ""
          /\ lastCall' = [fn |-> IF all THEN "all" ELSE "filter", arg |-> 0,
                       ret |-> Return(FALSE)]
  /\ UNCHANGED <<entries, formatted, sections, output, format, file>>
  /\ UNCHANGED captureVars

\* har.ts: entries.length === 0
NoneFound ==
  /\ pc = "selected"
  /\ Len(selected) = 0
  /\ pc' = "printed"
  /\ output' = "No JSON or GraphQL requests found in the HAR file."
  /\ exitCode' = Some(0)
  /\ UNCHANGED <<entries, selected, formatted, sections, format, lastCall,
                 file, stderr>>
  /\ UNCHANGED captureVars

\* Format passing the position in the array that counts from one
Format_OneBasedIndex ==
  /\ pc = "selected"
  /\ Len(selected) > 0
  /\ pc' = "formatted"
  /\ formatted' = [i \in DOMAIN selected |-> formatEntry(selected[i], i)]
  /\ UNCHANGED <<entries, selected, sections, output, format, lastCall,
                 file, stderr, exitCode>>
  /\ UNCHANGED captureVars

\* har.ts: entries.map((entry, index) => formatEntry(entry, index))
Format ==
  /\ pc = "selected"
  /\ Len(selected) > 0
  /\ pc' = "formatted"
  /\ formatted' = [i \in DOMAIN selected |-> formatEntry(selected[i], i - 1)]
  /\ UNCHANGED <<entries, selected, sections, output, format, lastCall,
                 file, stderr, exitCode>>
  /\ UNCHANGED captureVars

\* har.ts: formatForLLM(formatted) of the tagged formatter, printed by
\* Console.log
Render ==
  /\ pc = "formatted"
  /\ pc' = "printed"
  /\ format' = "tagged"
  /\ sections' = formatForLLMSections(formatted)
  /\ output' = formatForLLM(formatted)
  /\ exitCode' = Some(0)
  /\ UNCHANGED <<entries, selected, formatted, lastCall, file, stderr>>
  /\ UNCHANGED captureVars

\* har.ts: formatForLLM(formatted) of the markdown formatter
RenderMarkdown ==
  /\ pc = "formatted"
  /\ pc' = "printed"
  /\ format' = "markdown"
  /\ sections' = formatForLLMSections_md(formatted)
  /\ output' = formatForLLM_md(formatted)
  /\ exitCode' = Some(0)
  /\ UNCHANGED <<entries, selected, formatted, lastCall, file, stderr>>
  /\ UNCHANGED captureVars

\* har.ts with --compact: formatCompact(formatted); its TypeError is a defect
RenderCompact ==
  /\ pc = "formatted"
  /\ format' = "compact"
  /\ LET r == formatCompactSections(formatted)
     IN IF r.raised
        THEN /\ pc' = "raised"
             /\ stderr' = "TypeError: entry.requestBody.query.replace is not a function"
             /\ exitCode' = Some(1)
             /\ UNCHANGED <<sections, output>>
        ELSE /\ pc' = "printed"
             /\ sections' = r.value
             /\ output' = formatCompact(formatted).value
             /\ exitCode' = Some(0)
             /\ UNCHANGED stderr
  /\ UNCHANGED <<entries, selected, formatted, lastCall, file>>
  /\ UNCHANGED captureVars

Next ==
  \/ CallIsJSONRequest
  \/ CallIsJSONResponse
  \/ CallIsJSONResponseRoot
  \/ CallIsJSONResponseExt
  \/ CallIsGraphQLRequest
  \/ CallFilter
  \/ ReadFails
  \/ Select
  \/ NoneFound
  \/ Format
  \/ Render
  \/ RenderMarkdown
  \/ RenderCompact

Spec == Init /\ [][Next]_vars

(***************************************************************************)
(* The capture layer of the extension (chrome-extension/background.js).    *)
(* Request objects live in a heap, capturedRequests holds references to    *)
(* them, and the callbacks of the debugger commands in flight hold         *)
(* references to them too.                                                 *)
(***************************************************************************)
CaptureLimit == 100000
MaxPostDataSize == 65536
TruncationMarker == "\n[TRUNCATED]"

\* The bodies of the capture layer are strings of 100000 characters and
\* more.  They are kept as sequences of runs: a run is one character
\* repeated n times, or a literal string once (n = 1).  The operators below
\* are the string operations of the worker on this form.

\* the string of n characters c, and a literal string
Chars(c, n) == IF n = 0 THEN << >> ELSE << [s |-> c, n |-> n] >>
Literal(str) == IF str = "" THEN << >> ELSE << [s |-> str, n |-> 1] >>

\* String.prototype.length
RECURSIVE TextLength(_)
TextLength(text) ==
  IF text = << >> THEN 0
  ELSE Len(Head(text).s) * Head(text).n + TextLength(Tail(text))

\* the characters from..to-1 of a run, counted from 0
RunSubstring(run, from, to) ==
  IF to <= from THEN << >>
  ELSE IF run.n = 1 THEN Literal(SubSeq(run.s, from + 1, to))
  ELSE Chars(run.s, to - from)

\* String.prototype.substring(from, to)
RECURSIVE TextSubstring(_, _, _)
TextSubstring(text, from, to) ==
  IF text = << >> \/ to <= 0 THEN << >>
  ELSE LET width == Len(Head(text).s) * Head(text).n
       IN IF from >= width
          THEN TextSubstring(Tail(text), from - width, to - width)
          ELSE RunSubstring(Head(text), from, IF to < width THEN to ELSE width)
                 \o TextSubstring(Tail(text), 0, to - width)

\* the post bodies of the requestWillBeSent events; the browser sends the
\* bodies of at most maxPostDataSize bytes, the longer one stands for a
\* browser that does not
PostBodies ==
  {None} \cup { Some(Chars("p", n)) : n \in {MaxPostDataSize, CaptureLimit + 1} }

\* the results of Network.getResponseBody: a runtime error or no body, or a
\* body
ResponseBodies ==
  {None} \cup { Some(Chars("r", n)) : n \in {CaptureLimit, CaptureLimit + 1} }

\* body.substring(0, maxSize) + marker, without the cut
TruncateBody_Whole(body, maxSize) == body

\* the cut of fetchResponseBody and of the requestWillBeSent handler
TruncateBody(body, maxSize) ==
  IF TextLength(body) > maxSize
  THEN TextSubstring(body, 0, maxSize) \o Literal(TruncationMarker)
  ELSE body

\* the object pushed by the requestWillBeSent handler
NewRequest(requestId, postData) ==
  [ requestId |-> requestId,
    postData |-> postData,
    response |-> None,
    loadingFinished |-> FALSE,
    failed |-> FALSE ]

\* the clean-up without capturedRequests = []
Reset_KeepsRequests ==
  /\ debuggeeId' = None
  /\ isCapturing' = FALSE
  /\ UNCHANGED capturedRequests

\* debuggeeId = null; capturedRequests = []; isCapturing = false
Reset ==
  /\ debuggeeId' = None
  /\ capturedRequests' = << >>
  /\ isCapturing' = FALSE

\* a message being handled by startCapture or stopCapture; seen and stale
\* are the history of a stopCapture: the requests that were recorded when
\* its message arrived, and whether a startCapture message has arrived
\* since
Invocation(kind, at, target, seen) ==
  [kind |-> kind, pc |-> at, target |-> target, seen |-> seen, stale |-> FALSE]

\* sendResponse({ success: true, har }) and sendResponse({ success: false,
\* error })
Success(kind, har) ==
  Some([to |-> kind, success |-> TRUE, error |-> "", har |-> har])
Failure(kind, message) ==
  Some([to |-> kind, success |-> FALSE, error |-> message, har |-> << >>])

\* the slot taken by the next message
FreeSlot == CHOOSE slot \in Slots :
  /\ calls[slot] = Free
  /\ \A other \in Slots : calls[other] = Free => slot <= other

\* capturedRequests.find(r => r.requestId === requestId): the reference of
\* the first such request, or 0
Find(requestId) ==
  LET hits == { k \in DOMAIN capturedRequests :
                  heap[capturedRequests[k]].requestId = requestId }
  IN IF hits = {} THEN 0
     ELSE capturedRequests[CHOOSE k \in hits : \A j \in hits : k <= j]

\* convertToHAR: the entries of the requests that have a response and did
\* not fail; a few bodies of at most CaptureLimit characters stay far
\* below the cap of the message size, whose loop is left out
convertToHAR(requests, objects) ==
  LET Kept(ref) == objects[ref].response # None /\ ~objects[ref].failed
      Entry(ref) ==
        [ requestId |-> objects[ref].requestId,
          postData |-> objects[ref].postData,
          text |-> IF objects[ref].response[1].body = None THEN Literal("")
                   ELSE objects[ref].response[1].body[1] ]
      kept == SelectSeq(requests, Kept)
  IN [k \in DOMAIN kept |-> Entry(kept[k])]

\* the commands that a stopCapture waits for
Pending(c, cmds) == { cmd \in cmds : cmd.owner = c }

\* the paths that have stored a cut body, with one more when the body
\* stored now was cut
CutsWith(path, given, stored) ==
  IF stored # given THEN cuts \cup {path} ELSE cuts

InitCapture ==
  /\ CaptureIdle
  /\ file = "ok"
  /\ entries = << >>
  /\ pc = "start"
  /\ selected = << >>
  /\ formatted = << >>
  /\ sections = << >>
  /\ output = ""
  /\ format = "none"
  /\ lastCall = NoCall
  /\ stderr = ""
  /\ exitCode = None

\* onMessage startCapture: startCapture up to its first await
StartCaptureMessage ==
  /\ inputs < MaxInputs
  /\ inputs' = inputs + 1
  /\ \E slot \in Slots : calls[slot] = Free
  /\ \E tab \in TabIds :
       /\ debuggeeId' = Some(tab)
       /\ calls' = [slot \in Slots |->
                      IF slot = FreeSlot
                      THEN Invocation("startCapture", "attach", Some(tab), << >>)
                      ELSE IF calls[slot].kind = "stopCapture"
                      THEN [calls[slot] EXCEPT !.stale = TRUE]
                      ELSE calls[slot]]
  /\ capturedRequests' = << >>
  /\ isCapturing' = TRUE
  /\ UNCHANGED <<heap, commands, listening, attached, network, answer, cuts,
                 cliVars>>

\* chrome.debugger.attach settles: on success startCapture sends
\* Network.enable to the debuggee of that moment, on failure its catch block
\* cleans up and the message is answered with the error
AttachCompletes ==
  /\ \E c \in Slots :
       /\ calls[c].kind = "startCapture"
       /\ calls[c].pc = "attach"
       /\ \/ /\ calls[c].target[1] \notin attached
             /\ attached' = attached \cup {calls[c].target[1]}
             /\ IF debuggeeId = None
                THEN /\ calls' = [calls EXCEPT ![c] = Free]
                     /\ answer' = Failure("startCapture", "No target")
                     /\ Reset
                ELSE /\ calls' = [calls EXCEPT ![c].pc = "enable",
                                   ![c].target = debuggeeId]
                     /\ UNCHANGED <<debuggeeId, capturedRequests, isCapturing,
                                    answer>>
          \/ /\ calls' = [calls EXCEPT ![c] = Free]
             /\ answer' = Failure("startCapture", "Cannot attach")
             /\ Reset
             /\ UNCHANGED attached
  /\ UNCHANGED <<heap, commands, listening, network, cuts, inputs, cliVars>>

\* Network.enable settles, without the clean-up of the catch block
EnableCompletes_NoCleanup ==
  /\ \E c \in Slots :
       /\ calls[c].kind = "startCapture"
       /\ calls[c].pc = "enable"
       /\ calls' = [calls EXCEPT ![c] = Free]
       /\ \/ /\ calls[c].target[1] \in attached
             /\ listening' = TRUE
             /\ answer' = Success("startCapture", << >>)
          \/ /\ answer' = Failure("startCapture", "Cannot enable")
             /\ UNCHANGED listening
       /\ UNCHANGED <<debuggeeId, capturedRequests, isCapturing>>
  /\ UNCHANGED <<heap, commands, attached, network, cuts, inputs, cliVars>>

\* Network.enable settles: on success the event listener is added and the
\* message is answered, on failure the catch block cleans up
EnableCompletes ==
  /\ \E c \in Slots :
       /\ calls[c].kind = "startCapture"
       /\ calls[c].pc = "enable"
       /\ calls' = [calls EXCEPT ![c] = Free]
       /\ \/ /\ calls[c].target[1] \in attached
             /\ listening' = TRUE
             /\ answer' = Success("startCapture", << >>)
             /\ UNCHANGED <<debuggeeId, capturedRequests, isCapturing>>
          \/ /\ answer' = Failure("startCapture", "Cannot enable")
             /\ Reset
             /\ UNCHANGED listening
  /\ UNCHANGED <<heap, commands, attached, network, cuts, inputs, cliVars>>

\* onMessage stopCapture, without the check of debuggeeId
StopCaptureMessage_Unguarded ==
  /\ inputs < MaxInputs
  /\ inputs' = inputs + 1
  /\ \E slot \in Slots : calls[slot] = Free
  /\ calls' = [calls EXCEPT
                 ![FreeSlot] = Invocation("stopCapture", "delay", None,
                                          capturedRequests)]
  /\ UNCHANGED <<debuggeeId, capturedRequests, isCapturing, heap, commands,
                 listening, attached, network, answer, cuts, cliVars>>

\* onMessage stopCapture: stopCapture up to its first await
StopCaptureMessage ==
  /\ inputs < MaxInputs
  /\ inputs' = inputs + 1
  /\ \E slot \in Slots : calls[slot] = Free
  /\ IF debuggeeId = None
     THEN /\ answer' = Failure("stopCapture", "No capture in progress")
          /\ UNCHANGED calls
     ELSE /\ calls' = [calls EXCEPT
                         ![FreeSlot] = Invocation("stopCapture", "delay", None,
                                                 capturedRequests)]
          /\ UNCHANGED answer
  /\ UNCHANGED <<debuggeeId, capturedRequests, isCapturing, heap, commands,
                 listening, attached, network, cuts, cliVars>>

\* stopCapture from convertToHAR to its return, with the requests and the
\* objects of that moment
StopFinishes(c, objects) ==
  /\ calls' = [calls EXCEPT ![c] = Free]
  /\ answer' = Success("stopCapture", convertToHAR(capturedRequests, objects))
  /\ Reset

\* stopCapture after Promise.all: the listener is removed and the detach is
\* requested for the debuggee of that moment; with no debuggee the call
\* throws into the catch block and stopCapture goes on at once
StopDetaches(c, objects) ==
  /\ listening' = FALSE
  /\ IF debuggeeId = None
     THEN StopFinishes(c, objects)
     ELSE /\ calls' = [calls EXCEPT ![c].pc = "detach", ![c].target = debuggeeId]
          /\ UNCHANGED <<debuggeeId, capturedRequests, isCapturing, answer>>

\* the 500 ms delay of stopCapture elapses: a body is fetched for every
\* request that has a response without body and has finished loading;
\* fetchResponseBody sends no command when there is no debuggee
StopDelayElapses ==
  /\ \E c \in Slots :
       /\ calls[c].kind = "stopCapture"
       /\ calls[c].pc = "delay"
       /\ LET Wanted(ref) == /\ heap[ref].response # None
                             /\ heap[ref].response[1].body = None
                             /\ heap[ref].loadingFinished
              refs == IF debuggeeId = None THEN << >>
                      ELSE SelectSeq(capturedRequests, Wanted)
              sent == { [ref |-> refs[k], by |-> "stopCapture", owner |-> c] :
                          k \in DOMAIN refs }
          IN /\ commands' = commands \cup sent
             /\ IF sent = {}
                THEN StopDetaches(c, heap)
                ELSE /\ calls' = [calls EXCEPT ![c].pc = "fetch"]
                     /\ UNCHANGED <<debuggeeId, capturedRequests, isCapturing,
                                    listening, answer>>
  /\ UNCHANGED <<heap, attached, network, cuts, inputs, cliVars>>

\* the callback of Network.getResponseBody, in a fetchResponseBody that
\* resolves only when there is a body
ResponseBodyCallback_OnlyWithBody ==
  /\ \E cmd \in commands, result \in ResponseBodies :
       LET body == IF result = None THEN None
                   ELSE Some(TruncateBody(result[1], CaptureLimit))
           stores == body # None /\ heap[cmd.ref].response # None
           objects == IF stores
                      THEN [heap EXCEPT ![cmd.ref].response = Some([body |-> body])]
                      ELSE heap
       IN /\ heap' = objects
          /\ commands' = commands \ {cmd}
          /\ cuts' = IF stores THEN CutsWith(cmd.by, result[1], body[1]) ELSE cuts
          /\ IF body # None /\ cmd.owner > 0
                 /\ Pending(cmd.owner, commands \ {cmd}) = {}
             THEN StopDetaches(cmd.owner, objects)
             ELSE UNCHANGED <<calls, debuggeeId, capturedRequests, isCapturing,
                              listening, answer>>
  /\ UNCHANGED <<attached, network, inputs, cliVars>>

\* the callback of Network.getResponseBody runs with a runtime error, no
\* body or a body: fetchResponseBody resolves to null or to the body cut at
\* maxSize, the continuation stores a body that is not null, and the
\* stopCapture that waited for its last fetch goes on
ResponseBodyCallback ==
  /\ \E cmd \in commands, result \in ResponseBodies :
       LET body == IF result = None THEN None
                   ELSE Some(TruncateBody(result[1], CaptureLimit))
           stores == body # None /\ heap[cmd.ref].response # None
           objects == IF stores
                      THEN [heap EXCEPT ![cmd.ref].response = Some([body |-> body])]
                      ELSE heap
       IN /\ heap' = objects
          /\ commands' = commands \ {cmd}
          /\ cuts' = IF stores THEN CutsWith(cmd.by, result[1], body[1]) ELSE cuts
          /\ IF cmd.owner > 0 /\ Pending(cmd.owner, commands \ {cmd}) = {}
             THEN StopDetaches(cmd.owner, objects)
             ELSE UNCHANGED <<calls, debuggeeId, capturedRequests, isCapturing,
                              listening, answer>>
  /\ UNCHANGED <<attached, network, inputs, cliVars>>

\* chrome.debugger.detach settles, its failure is caught, and stopCapture
\* converts, cleans up and returns the HAR
DetachCompletes ==
  /\ \E c \in Slots :
       /\ calls[c].kind = "stopCapture"
       /\ calls[c].pc = "detach"
       /\ attached' = attached \ {calls[c].target[1]}
       /\ StopFinishes(c, heap)
  /\ UNCHANGED <<heap, commands, listening, network, cuts, inputs, cliVars>>

\* the handler of a debugger event takes the event
Accepts(tab) == debuggeeId # None /\ debuggeeId[1] = tab

\* onDebuggerEvent, Network.requestWillBeSent
RequestWillBeSent ==
  /\ inputs < MaxInputs
  /\ inputs' = inputs + 1
  /\ listening
  /\ \E tab \in attached, id \in RequestIds, postData \in PostBodies :
       /\ network[id] = "none"
       /\ \A other \in RequestIds : network[other] = "none" => id <= other
       /\ network' = [network EXCEPT ![id] = "sent"]
       /\ IF Accepts(tab)
          THEN LET stored == IF postData = None THEN None
                             ELSE Some(TruncateBody(postData[1], CaptureLimit))
               IN /\ heap' = Append(heap, NewRequest(id, stored))
                  /\ capturedRequests' = Append(capturedRequests, Len(heap) + 1)
                  /\ cuts' = IF postData = None THEN cuts
                             ELSE CutsWith("requestWillBeSent", postData[1],
                                           stored[1])
          ELSE UNCHANGED <<heap, capturedRequests, cuts>>
  /\ UNCHANGED <<debuggeeId, isCapturing, commands, calls, listening, attached,
                 answer, cliVars>>

\* onDebuggerEvent, Network.responseReceived
ResponseReceived ==
  /\ inputs < MaxInputs
  /\ inputs' = inputs + 1
  /\ listening
  /\ \E tab \in attached, id \in RequestIds :
       /\ network[id] = "sent"
       /\ network' = [network EXCEPT ![id] = "received"]
       /\ IF Accepts(tab) /\ Find(id) # 0
          THEN heap' = [heap EXCEPT ![Find(id)].response = Some([body |-> None])]
          ELSE UNCHANGED heap
  /\ UNCHANGED <<debuggeeId, capturedRequests, isCapturing, commands, calls,
                 listening, attached, answer, cuts, cliVars>>

\* onDebuggerEvent, Network.loadingFinished: the request is marked and, when
\* it has a response, its body is fetched
LoadingFinished ==
  /\ inputs < MaxInputs
  /\ inputs' = inputs + 1
  /\ listening
  /\ \E tab \in attached, id \in RequestIds :
       /\ network[id] = "received"
       /\ network' = [network EXCEPT ![id] = "finished"]
       /\ IF Accepts(tab) /\ Find(id) # 0
          THEN /\ heap' = [heap EXCEPT ![Find(id)].loadingFinished = TRUE]
               /\ commands' =
                    IF heap[Find(id)].response # None
                    THEN commands \cup
                           {[ref |-> Find(id), by |-> "loadingFinished", owner |-> 0]}
                    ELSE commands
          ELSE UNCHANGED <<heap, commands>>
  /\ UNCHANGED <<debuggeeId, capturedRequests, isCapturing, calls, listening,
                 attached, answer, cuts, cliVars>>

\* onDebuggerEvent, Network.loadingFailed
LoadingFailed ==
  /\ inputs < MaxInputs
  /\ inputs' = inputs + 1
  /\ listening
  /\ \E tab \in attached, id \in RequestIds :
       /\ network[id] \in {"sent", "received"}
       /\ network' = [network EXCEPT ![id] = "failed"]
       /\ IF Accepts(tab) /\ Find(id) # 0
          THEN heap' = [heap EXCEPT ![Find(id)].failed = TRUE]
          ELSE UNCHANGED heap
  /\ UNCHANGED <<debuggeeId, capturedRequests, isCapturing, commands, calls,
                 listening, attached, answer, cuts, cliVars>>

\* the browser ends the debugging session of a tab, and the onDetach
\* listener cleans up when the tab is the debuggee
DebuggerDetached ==
  /\ inputs < MaxInputs
  /\ inputs' = inputs + 1
  /\ \E tab \in attached :
       /\ attached' = attached \ {tab}
       /\ IF Accepts(tab) THEN Reset
          ELSE UNCHANGED <<debuggeeId, capturedRequests, isCapturing>>
  /\ UNCHANGED <<heap, commands, calls, listening, network, answer, cuts,
                 cliVars>>

NextCapture ==
  \/ StartCaptureMessage
  \/ AttachCompletes
  \/ EnableCompletes
  \/ StopCaptureMessage
  \/ StopDelayElapses
  \/ ResponseBodyCallback
  \/ DetachCompletes
  \/ RequestWillBeSent
  \/ ResponseReceived
  \/ LoadingFinished
  \/ LoadingFailed
  \/ DebuggerDetached

SpecCapture == InitCapture /\ [][NextCapture]_vars

\* a callback of a debugger command or the timer of a delay runs
Completes ==
  \/ AttachCompletes
  \/ EnableCompletes
  \/ StopDelayElapses
  \/ ResponseBodyCallback
  \/ DetachCompletes

\* the browser keeps running the callbacks and the timers that are due
CaptureFairness == WF_vars(Completes)

SpecCaptureFair == SpecCapture /\ CaptureFairness


(***************************************************************************)
(* Properties of the classifier.                                           *)
(***************************************************************************)
\* the entry a direct call was made on
CalledEntry == entries[lastCall.arg]

ResponseCalls == {"isJSONResponse", "isJSONResponse_root", "isJSONResponse_ext"}

\* C1: isJSONRequest and isJSONResponse return true exactly when the
\* content-type string they examine contains the substring "json" (so
\* application/vnd.api+json and application/ld+json classify as JSON), and
\* false when it does not.
C1_JsonSubstringClassifies ==
  /\ (pc = "returned" /\ lastCall.fn = "isJSONRequest")
       => lastCall.ret = Return(Includes(RequestContentType(CalledEntry), "json"))
  /\ (pc = "returned" /\ lastCall.fn \in ResponseCalls
        /\ CalledEntry.response.content.mimeType # None)
       => lastCall.ret =
            Return(Includes(CalledEntry.response.content.mimeType[1], "json"))

\* C6: isGraphQLRequest returns false for every entry for which
\* isJSONRequest is false, whatever the request body contains.
C6_GraphQLImpliesJSONRequest ==
  (pc = "returned" /\ lastCall.fn = "isGraphQLRequest"
     /\ ~isJSONRequest(CalledEntry).value)
    => lastCall.ret = Return(FALSE)

\* a non-JSON request whose body is a GraphQL operation was classified
C6_Witness ==
  /\ pc = "returned" /\ lastCall.fn = "isGraphQLRequest"
  /\ ~isJSONRequest(CalledEntry).value
  /\ CalledEntry.request.postData # None
  /\ CalledEntry.request.postData[1].text = Stringify(GqlFull)
  /\ lastCall.ret = Return(FALSE)

\* the parsed value is an object with a non-falsy operationName or query
HasOperation(v) ==
  /\ v.t = "object"
  /\ \E k \in DOMAIN v.ks :
       v.ks[k] \in {"operationName", "query"} /\ Truthy(v.vs[k])

\* what C7 states for an entry with a JSON request
C7_Expected(entry) ==
  IF entry.request.postData = None THEN FALSE
  ELSE LET text == entry.request.postData[1].text
       IN IF text = "" \/ JSONParse(text).raised THEN FALSE
          ELSE HasOperation(JSONParse(text).value)

\* C7: for an entry that isJSONRequest accepts, isGraphQLRequest never
\* raises; it returns false when the request body text is absent, empty or
\* not valid JSON, and for valid JSON it returns true exactly when the
\* parsed value has a non-falsy operationName or query field.
C7_GraphQLRequestTotal ==
  (pc = "returned" /\ lastCall.fn = "isGraphQLRequest"
     /\ isJSONRequest(CalledEntry).value)
    => /\ ~lastCall.ret.raised
       /\ lastCall.ret.value = C7_Expected(CalledEntry)

\* a JSON request whose body parses to null was classified without a throw
C7_Witness ==
  /\ pc = "returned" /\ lastCall.fn = "isGraphQLRequest"
  /\ isJSONRequest(CalledEntry).value
  /\ CalledEntry.request.postData # None
  /\ CalledEntry.request.postData[1].text = "null"
  /\ lastCall.ret = Return(FALSE)

EqualIgnoringCase(a, b) == toLowerCase(a) = toLowerCase(b)

\* the effective content type as C9 states it
C9_EffectiveContentType(entry) ==
  LET pd == entry.request.postData
      hs == entry.request.headers
      named == { i \in DOMAIN hs : EqualIgnoringCase(hs[i].name, "content-type") }
  IN IF pd # None /\ pd[1].mimeType # "" THEN pd[1].mimeType
     ELSE IF named # {}
     THEN hs[CHOOSE i \in named : \A j \in named : i <= j].value
     ELSE ""

\* C9: isJSONRequest decides on one effective content type: the request
\* body MIME type when present and non-empty, otherwise the value of the
\* first header named content-type in any letter case, otherwise the empty
\* string; with neither it returns false, and it never raises.
C9_EffectiveContentTypeDecides ==
  (pc = "returned" /\ lastCall.fn = "isJSONRequest")
    => /\ ~lastCall.ret.raised
       /\ lastCall.ret.value =
            Includes(C9_EffectiveContentType(CalledEntry), "application/json")
       /\ (C9_EffectiveContentType(CalledEntry) = "" => ~lastCall.ret.value)

\* two content-type headers of different letter case disagree and the first
\* one, a JSON type, decided
C9_Witness ==
  /\ pc = "returned" /\ lastCall.fn = "isJSONRequest"
  /\ CalledEntry.request.postData = None
  /\ Len(CalledEntry.request.headers) = 2
  /\ CalledEntry.request.headers[1] = Header("Content-Type", "application/json")
  /\ CalledEntry.request.headers[2] = Header("content-type", "text/html")
  /\ lastCall.ret = Return(TRUE)

\* C10: isJSONResponse returns false, without raising, for an entry whose
\* response MIME type is absent.
C10_AbsentMimeTypeIsNotJSON ==
  (pc = "returned" /\ lastCall.fn \in ResponseCalls
     /\ CalledEntry.response.content.mimeType = None)
    => lastCall.ret = Return(FALSE)

(***************************************************************************)
(* Properties of the filter and of the formatter.                          *)
(***************************************************************************)
Filtered == pc \in {"returned", "selected", "formatted", "printed", "raised"}
                /\ lastCall.fn \in {"filter", "filterJSONAndGraphQLEntries"}
Mapped == pc \in {"formatted", "printed"}
Printed == pc = "printed" /\ Len(formatted) > 0 /\ format = "tagged"
PrintedMarkdown == pc = "printed" /\ Len(formatted) > 0 /\ format = "markdown"
PrintedCompact == pc = "printed" /\ Len(formatted) > 0 /\ format = "compact"

ClassifiedJSON(entry, f) == ~f.raised /\ f.value

\* the entries C2 says the filter returns
C2_Kept(entry) ==
  /\ \/ ClassifiedJSON(entry, isJSONRequest(entry))
     \/ ClassifiedJSON(entry, isJSONResponse(entry))
  /\ entry.response.content.text # None

\* C2: filterJSONAndGraphQLEntries returns exactly the entries for which
\* isJSONRequest or isJSONResponse holds and the response body text is
\* defined, each once and in their original relative order; an empty
\* response text is kept, an undefined one never is.
C2_FilterReturnsExactlyKept ==
  Filtered => /\ pc # "raised"
              /\ selected = SelectSeq(entries, C2_Kept)

\* the request and response body texts of an entry, as optional fields
RequestText(entry) ==
  IF entry.request.postData = None THEN None
  ELSE Some(entry.request.postData[1].text)
ResponseText(entry) == entry.response.content.text

\* what C3 states for one body text and the body value decoded from it
C3_Decoded(text, body) ==
  /\ (text # None /\ JSONParse(text[1]).raised) => body = JStr(text[1])
  /\ body = JUndefined => text = None

\* C3: body decoding in formatEntry never raises; for every body text that
\* is not valid JSON, the empty string included, the body value is that text
\* unchanged, and only an absent body text yields an absent body value.
C3_InvalidTextKept ==
  Mapped => \A i \in DOMAIN formatted :
              /\ C3_Decoded(RequestText(selected[i]), formatted[i].requestBody)
              /\ C3_Decoded(ResponseText(selected[i]), formatted[i].responseBody)

\* the positions in the sections array where a record unit starts
UnitStarts == { k \in DOMAIN sections : StartsWith(sections[k], "\n<request index=") }

\* the sections of the i-th record unit, from its header to its close
Unit(i) ==
  LET first == CHOOSE k \in UnitStarts :
                 Cardinality({ j \in UnitStarts : j < k }) = i - 1
      later == { k \in UnitStarts : k > first }
      last == IF later = {} THEN Len(sections) - 1
              ELSE (CHOOSE k \in later : \A j \in later : k <= j) - 1
  IN SubSeq(sections, first, last)

HasLine(unit, line) == \E k \in DOMAIN unit : unit[k] = line

\* C4: formatForLLM emits a response block for every record whose
\* responseBody is present and a generic request-body block for every record
\* whose requestBody is present and that has no GraphQL query block,
\* whatever the decoded value is (false, 0, null and "" included); a record
\* with neither body yields a unit of header, URL and status lines only.
C4_BlockForEveryPresentBody ==
  Printed =>
    /\ Cardinality(UnitStarts) = Len(formatted)
    /\ \A i \in DOMAIN formatted :
         LET r == formatted[i]
             u == Unit(i)
         IN /\ r.responseBody # JUndefined => HasLine(u, "  <response>")
            /\ (r.requestBody # JUndefined /\ ~HasLine(u, "  <graphql_query>"))
                 => HasLine(u, "  <request_body>")
            /\ (r.requestBody = JUndefined /\ r.responseBody = JUndefined)
                 => /\ Len(u) = 4
                    /\ StartsWith(u[2], "  <url method=")
                    /\ StartsWith(u[3], "  <status code=")
                    /\ u[4] = "</request>"

\* the response text as C5 states it
C5_Capped(str) ==
  IF Len(str) <= 1000 THEN str
  ELSE SubSeq(str, 1, 1000) \o "\n... [truncated]"

EndsWith(s, suf) ==
  Len(s) >= Len(suf) /\ SubSeq(s, Len(s) - Len(suf) + 1, Len(s)) = suf

\* the section of the markdown report that holds the i-th record
UnitMarkdown(i) == sections[4 + 2 * i]

C5_Tagged ==
  Printed =>
    /\ output = Join(sections, "\n")
    /\ \A i \in DOMAIN formatted :
         LET u == Unit(i)
             str == JSONStringify2(formatted[i].responseBody)
         IN /\ Truthy(formatted[i].responseBody) => HasLine(u, "  <response>")
            /\ \A k \in DOMAIN u :
                 u[k] = "  <response>"
                   => /\ k + 2 \in DOMAIN u
                      /\ u[k + 1] = C5_Capped(str)
                      /\ u[k + 2] = "  </response>"
                      /\ Includes(output, "\n  <response>\n" \o C5_Capped(str)
                                            \o "\n  </response>\n</request>")

C5_Markdown ==
  PrintedMarkdown =>
    /\ output = Join(sections, "\n")
    /\ Len(sections) = 5 + 2 * Len(formatted)
    /\ \A i \in DOMAIN formatted :
         LET u == UnitMarkdown(i)
             str == JSONStringify2(formatted[i].responseBody)
             block == "\n\n### Response Body:\n" \o Fence \o "json\n"
                        \o C5_Capped(str) \o "\n" \o Fence
         IN /\ Truthy(formatted[i].responseBody) => EndsWith(u, block)
            /\ Includes(u, "### Response Body:") => EndsWith(u, block)

C8_OperationName(body) ==
  IF body.t = "object" /\ \E k \in DOMAIN body.ks : body.ks[k] = "operationName"
  THEN body.vs[CHOOSE k \in DOMAIN body.ks : body.ks[k] = "operationName"]
  ELSE JUndefined

\* C8: formatEntry sets isGraphQL exactly when the decoded request body is a
\* structure with a non-falsy operationName or query field, whatever the
\* content types are, and to false for an absent body and for a raw
\* undecodable string; operationName is the decoded body's field, or absent.
C8_IsGraphQLFromDecodedBody ==
  Mapped => \A i \in DOMAIN formatted :
              LET r == formatted[i]
                  text == RequestText(selected[i])
              IN /\ r.isGraphQL = HasOperation(r.requestBody)
                 /\ r.operationName = C8_OperationName(r.requestBody)
                 /\ (text = None \/ JSONParse(text[1]).raised) => ~r.isGraphQL
                 /\ (text # None /\ ~JSONParse(text[1]).raised
                       /\ HasOperation(JSONParse(text[1]).value)) => r.isGraphQL

\* a GraphQL body sent with a non-JSON content type is a GraphQL record
C8_Witness ==
  /\ Mapped /\ Len(formatted) = 1
  /\ selected[1].request.postData = Some(PostData("text/plain", Stringify(GqlFull)))
  /\ ~isJSONRequest(selected[1]).value
  /\ formatted[1].isGraphQL
  /\ formatted[1].operationName = JStr("GetUsers")

(***************************************************************************)
(* Properties of the records and of the reports.                           *)
(***************************************************************************)
\* the positions of the entries that survive the selection of the run
Survivors ==
  { j \in DOMAIN entries :
      lastCall.fn = "all" \/ FilterPredicate(entries[j]).value }

\* the rank of position j among the surviving positions
Rank(j) == Cardinality({ k \in Survivors : k <= j })

\* C11: when the surviving entries are mapped through formatEntry by
\* position, the ordinals of the records are exactly 1, 2, ..., n in the
\* original relative order of the surviving entries: distinct, without gaps,
\* and never counting an entry the filter removed.
C11_OrdinalsAreRanks ==
  Mapped =>
    /\ Len(formatted) = Cardinality(Survivors)
    /\ \A i \in DOMAIN formatted : formatted[i].index = i
    /\ \A j \in Survivors :
         /\ formatted[Rank(j)].index = Rank(j)
         /\ formatted[Rank(j)].url = entries[j].request.url
         /\ formatted[Rank(j)].timestamp = entries[j].startedDateTime

\* the filter removed the first entry, and the second one has ordinal 1
C11_Witness ==
  /\ Mapped /\ lastCall.fn = "filter"
  /\ Len(entries) = 2 /\ Len(formatted) = 1
  /\ ~FilterPredicate(entries[1]).value
  /\ entries[1].request.url # entries[2].request.url
  /\ formatted[1].index = 1
  /\ formatted[1].url = entries[2].request.url

\* C15: the duration of a record is the entry time rounded to the nearest
\* integer, a half rounding up: 150.4 gives 150, 123.456 gives 123, 0 gives
\* 0 and x.5 gives x + 1.
C15_DurationRoundsHalfUp ==
  Mapped => \A i \in DOMAIN formatted :
              LET t == selected[i].time
                  d == formatted[i].duration
              IN /\ d \in Int
                 /\ 1000 * d - 500 <= t
                 /\ t < 1000 * d + 500
                 /\ t = 150400 => d = 150
                 /\ t = 123456 => d = 123
                 /\ t = 0 => d = 0

\* an entry that took 2.5 ms has the duration 3, and the report prints it
C15_Witness ==
  /\ Printed /\ Len(formatted) = 1
  /\ selected[1].time = 2500
  /\ formatted[1].duration = 3
  /\ Includes(output, "duration=\"3ms\"")

\* the summary C12 states for the records, as the lines of each mode
C12_Summary ==
  LET total == Len(formatted)
      graphql == Cardinality({ i \in DOMAIN formatted : formatted[i].isGraphQL })
      rest == total - graphql
  IN CASE format = "tagged" ->
            << "<api_requests total=\"" \o ToString(total) \o "\" graphql=\""
                 \o ToString(graphql) \o "\" rest=\"" \o ToString(rest)
                 \o "\">" >>
       [] format = "markdown" ->
            << "# HAR File Analysis - API Requests Summary",
               "Total API Requests: " \o ToString(total),
               "GraphQL Requests: " \o ToString(graphql),
               "REST/JSON Requests: " \o ToString(rest) >>
       [] format = "compact" ->
            << "# API Requests Overview",
               ToString(total) \o " total requests (" \o ToString(graphql)
                 \o " GraphQL, " \o ToString(rest) \o " REST)\n" >>

\* the positions of the sections that open a record unit, in each mode
C12_UnitSections ==
  { k \in DOMAIN sections :
      CASE format = "tagged" -> StartsWith(sections[k], "\n<request index=")
        [] format = "markdown" -> StartsWith(sections[k], "## Request #")
        [] format = "compact" -> \/ StartsWith(sections[k], "[GraphQL: ")
                                 \/ StartsWith(sections[k], "[REST] ") }

\* C12: in every output mode (tagged, markdown, compact) the summary is
\* emitted before any record unit and reports total = the number of records,
\* graphql = the number of records whose isGraphQL is true, and
\* rest = total - graphql.
C12_SummaryFirstAndCounts ==
  (pc = "printed" /\ Len(formatted) > 0) =>
    /\ output = Join(sections, "\n")
    /\ SubSeq(sections, 1, Len(C12_Summary)) = C12_Summary
    /\ StartsWith(output, Join(C12_Summary, "\n") \o "\n")
    /\ Cardinality(C12_UnitSections) = Len(formatted)
    /\ \A k \in C12_UnitSections : k > Len(C12_Summary)

\* a compact overview of one GraphQL record without operation name and one
\* REST record starts with the summary of 2 requests, 1 GraphQL and 1 REST
C12_Witness ==
  /\ PrintedCompact /\ Len(formatted) = 2
  /\ formatted[1].isGraphQL /\ ~Truthy(formatted[1].operationName)
  /\ ~formatted[2].isGraphQL
  /\ StartsWith(output, "# API Requests Overview\n2 total requests (1 GraphQL, 1 REST)\n\n[GraphQL: unknown] POST ")

\* the rank of a line of a tagged unit in the order C13 states; 0 for the
\* content of a block
C13_Rank(line) ==
  CASE StartsWith(line, "\n<request index=") -> 1
    [] StartsWith(line, "  <url method=") -> 2
    [] StartsWith(line, "  <status code=") -> 3
    [] StartsWith(line, "  <operation>") -> 4
    [] line = "  <graphql_query>" -> 5
    [] line = "  </graphql_query>" -> 6
    [] line = "  <variables>" -> 7
    [] line = "  </variables>" -> 8
    [] line = "  <request_body>" -> 9
    [] line = "  </request_body>" -> 10
    [] line = "  <response>" -> 11
    [] line = "  </response>" -> 12
    [] line = "</request>" -> 13
    [] OTHER -> 0

\* the ranks of the lines that open a block
C13_Opening == {5, 7, 9, 11}

\* C13: in the tagged report every record unit emits its parts in this
\* order: header with ordinal and type tag (graphql exactly when isGraphQL,
\* else rest), method and URL line, status and duration line, operation-name
\* line (only for GraphQL records that have an operation name), request body
\* section, response section; and no unit holds both a GraphQL query block
\* and a generic request-body block.
C13_UnitPartsInOrder ==
  Printed =>
    /\ Cardinality(UnitStarts) = Len(formatted)
    /\ \A i \in DOMAIN formatted :
         LET r == formatted[i]
             u == Unit(i)
         IN /\ Len(u) >= 4
            /\ u[1] = "\n<request index=\"" \o ToString(i) \o "\" type=\""
                        \o (IF r.isGraphQL THEN "graphql" ELSE "rest") \o "\">"
            /\ u[2] = "  <url method=\"" \o r.method \o "\">" \o r.url \o "</url>"
            /\ u[3] = "  <status code=\"" \o ToString(r.status)
                        \o "\" duration=\"" \o ToString(r.duration) \o "ms\"/>"
            /\ u[Len(u)] = "</request>"
            /\ \A k, l \in DOMAIN u :
                 (k < l /\ C13_Rank(u[k]) > 0 /\ C13_Rank(u[l]) > 0)
                   => C13_Rank(u[k]) < C13_Rank(u[l])
            /\ \A k \in DOMAIN u :
                 /\ C13_Rank(u[k]) = 0
                      => (k > 1 /\ C13_Rank(u[k - 1]) \in C13_Opening)
                 /\ C13_Rank(u[k]) \in C13_Opening
                      => /\ k + 2 <= Len(u)
                         /\ C13_Rank(u[k + 1]) = 0
                         /\ C13_Rank(u[k + 2]) = C13_Rank(u[k]) + 1
                 /\ C13_Rank(u[k]) = 4
                      => (r.isGraphQL /\ r.operationName # JUndefined)
            /\ (r.isGraphQL /\ Truthy(r.operationName))
                 => HasLine(u, "  <operation>" \o ToJSString(r.operationName)
                                 \o "</operation>")
            /\ ~(HasLine(u, "  <graphql_query>") /\ HasLine(u, "  <request_body>"))

\* a unit with all its parts: header, URL, status, operation, GraphQL query
\* with variables, and response
C13_Witness ==
  /\ Printed /\ Len(formatted) = 1
  /\ [k \in DOMAIN Unit(1) |-> C13_Rank(Unit(1)[k])]
       = << 1, 2, 3, 4, 5, 0, 6, 7, 0, 8, 11, 0, 12, 13 >>

\* the field of a decoded body, or undefined
C14_Field(body, key) ==
  IF body.t = "object" /\ \E k \in DOMAIN body.ks : body.ks[k] = key
  THEN body.vs[CHOOSE k \in DOMAIN body.ks : body.ks[k] = key]
  ELSE JUndefined

C14_HasField(body, key) ==
  body.t = "object" /\ \E k \in DOMAIN body.ks : body.ks[k] = key

\* the variables of a body have at least one key
C14_HasVariables(body) ==
  LET variables == C14_Field(body, "variables")
  IN variables.t = "object" /\ Len(variables.ks) > 0

\* the unit holds the block tag .. content .. closing tag, once
C14_Block(unit, tag, content, closing) ==
  /\ \E k \in DOMAIN unit :
       /\ k + 2 <= Len(unit)
       /\ unit[k] = tag /\ unit[k + 1] = content /\ unit[k + 2] = closing
  /\ Cardinality({ k \in DOMAIN unit : unit[k] = tag }) = 1

C14_VariablesPart(r, u) ==
  /\ HasLine(u, "  <variables>") => HasLine(u, "  <graphql_query>")
  /\ HasLine(u, "  <graphql_query>")
       => (HasLine(u, "  <variables>") <=> C14_HasVariables(r.requestBody))
  /\ HasLine(u, "  <variables>")
       => C14_Block(u, "  <variables>",
                    JSONStringify2(C14_Field(r.requestBody, "variables")),
                    "  </variables>")

\* C14: formatForLLM renders a GraphQL query block exactly for records that
\* are GraphQL and whose decoded request body has a query; a variables block
\* appears only together with a query block and exactly when the decoded
\* body's variables has at least one key (absent or empty variables produce
\* no variables block).
C14_QueryBlockForEveryQuery ==
  Printed =>
    \A i \in DOMAIN formatted :
      LET r == formatted[i]
          u == Unit(i)
      IN /\ HasLine(u, "  <graphql_query>")
              <=> (r.isGraphQL /\ C14_HasField(r.requestBody, "query"))
         /\ C14_VariablesPart(r, u)

\* C14 as the code has it: the query block is rendered exactly for GraphQL
\* records whose decoded request body has a non-falsy query (an empty query
\* goes to the generic request-body block with the rest of the body); the
\* variables block appears only with a query block, and then exactly when
\* variables has at least one key.
C14_QueryBlockForNonFalsyQuery ==
  Printed =>
    \A i \in DOMAIN formatted :
      LET r == formatted[i]
          u == Unit(i)
          query == C14_Field(r.requestBody, "query")
      IN /\ HasLine(u, "  <graphql_query>") <=> (r.isGraphQL /\ Truthy(query))
         /\ HasLine(u, "  <graphql_query>")
              => C14_Block(u, "  <graphql_query>", ToJSString(query),
                           "  </graphql_query>")
         /\ (r.isGraphQL /\ C14_HasField(r.requestBody, "query") /\ ~Truthy(query))
              => C14_Block(u, "  <request_body>", JSONStringify2(r.requestBody),
                           "  </request_body>")
         /\ C14_VariablesPart(r, u)

\* a query with variables {"id": "123"} has both blocks, and the variables
\* block holds the indented JSON of the variables
C14_Witness ==
  /\ Printed /\ Len(formatted) = 1
  /\ formatted[1].requestBody = GqlVars
  /\ HasLine(Unit(1), "  <graphql_query>")
  /\ HasLine(Unit(1), "{\n  \"id\": \"123\"\n}")

(***************************************************************************)
(* Properties of the har command.                                          *)
(***************************************************************************)
\* the run of the har command has ended
Exited == exitCode # None

\* the har command read the file and selected entries
Selected == lastCall.fn \in {"all", "filter"}

\* C17: when the HAR path does not exist or the file content is not valid
\* JSON, the run of the CLI ends as a failure (non-zero exit status) and
\* reports a message containing 'File not found' or 'Invalid JSON'
\* respectively; no report is printed.
C17_ReadFailureExitsNonZero ==
  (Exited /\ file \in {"missing", "invalid-json"}) =>
    /\ exitCode # Some(0)
    /\ file = "missing" => Includes(stderr, "File not found")
    /\ file = "invalid-json" => Includes(stderr, "Invalid JSON")
    /\ output = ""

\* the total the summary of the report states, as each mode writes it
C18_ReportsTotal(n) ==
  CASE format = "tagged" ->
         StartsWith(output, "<api_requests total=\"" \o ToString(n) \o "\" ")
    [] format = "markdown" ->
         StartsWith(output, "# HAR File Analysis - API Requests Summary\n"
                              \o "Total API Requests: " \o ToString(n) \o "\n")
    [] format = "compact" ->
         StartsWith(output, "# API Requests Overview\n" \o ToString(n)
                              \o " total requests (")
    [] OTHER -> FALSE

\* C18: when no entry survives selection, the CLI prints exactly the message
\* 'No JSON or GraphQL requests found in the HAR file.' and emits no report
\* or summary line; when at least one survives it emits a report whose total
\* equals the number of surviving entries.
C18_MessageOrReport ==
  (Exited /\ Selected) =>
    IF Len(selected) = 0
    THEN /\ output = "No JSON or GraphQL requests found in the HAR file."
         /\ sections = << >>
         /\ format = "none"
    ELSE /\ pc = "printed"
         /\ C18_ReportsTotal(Len(selected))

\* C19: with --all the CLI formats every entry of the HAR in original order
\* (the total equals the number of entries, including non-JSON entries and
\* entries without response text); without it, only the entries kept by
\* filterJSONAndGraphQLEntries are formatted.
C19_AllFormatsEveryEntry ==
  (Selected /\ pc \in {"selected", "formatted", "printed", "raised"}) =>
    /\ lastCall.fn = "all" => selected = entries
    /\ lastCall.fn = "filter" => selected = SelectSeq(entries, C2_Kept)
    /\ (pc # "selected" /\ Len(selected) > 0) =>
         /\ Len(formatted) = Len(selected)
         /\ \A i \in DOMAIN formatted :
              /\ formatted[i].index = i
              /\ formatted[i].url = selected[i].request.url
              /\ formatted[i].responseBody = JUndefined
                   <=> ~Truthy(OptStr(selected[i].response.content.text))
    /\ (pc = "printed" /\ Len(selected) > 0) => C18_ReportsTotal(Len(selected))

\* with --all a report of total 2 holds an entry that is not JSON and an
\* entry without response text, both of which the filter drops
C19_Witness ==
  /\ pc = "printed" /\ lastCall.fn = "all" /\ format = "tagged"
  /\ Len(entries) = 2 /\ Len(formatted) = 2
  /\ entries[1].response.content.mimeType = Some("text/html")
  /\ entries[1].response.content.text # None
  /\ ~C2_Kept(entries[1])
  /\ entries[2].response.content.text = None
  /\ StartsWith(output, "<api_requests total=\"2\" graphql=\"0\" rest=\"2\">")


\* a body that holds at most CaptureLimit captured characters, followed by
\* the marker when it was cut
C20_Bounded(body) ==
  \/ TextLength(body) <= CaptureLimit
  \/ /\ TextLength(body) = CaptureLimit + Len(TruncationMarker)
     /\ TextSubstring(body, CaptureLimit, TextLength(body))
          = Literal(TruncationMarker)

\* a body that was cut
C20_Cut(body) ==
  /\ TextLength(body) = CaptureLimit + Len(TruncationMarker)
  /\ TextSubstring(body, CaptureLimit, TextLength(body))
       = Literal(TruncationMarker)

\* C20: every post body and every response body held by a request object of
\* the capture layer, and every one put in the HAR that stopCapture
\* returns, holds at most 100000 captured characters, followed by the
\* marker when it was cut, whether it was stored by the requestWillBeSent
\* handler, by the fetch of the loadingFinished handler or by the fetch of
\* stopCapture.
C20_BodiesAreBounded ==
  /\ \A ref \in DOMAIN heap :
       /\ heap[ref].postData # None => C20_Bounded(heap[ref].postData[1])
       /\ (heap[ref].response # None /\ heap[ref].response[1].body # None)
            => C20_Bounded(heap[ref].response[1].body[1])
  /\ answer # None =>
       \A k \in DOMAIN answer[1].har :
         /\ answer[1].har[k].postData # None
              => C20_Bounded(answer[1].har[k].postData[1])
         /\ C20_Bounded(answer[1].har[k].text)

\* each of the three paths has stored a body that it cut, and stopCapture
\* has returned a HAR whose entry holds a cut post body and a cut response
\* body
C20_Witness ==
  /\ cuts = {"requestWillBeSent", "loadingFinished", "stopCapture"}
  /\ answer # None
  /\ \E k \in DOMAIN answer[1].har :
       /\ answer[1].har[k].postData # None
       /\ C20_Cut(answer[1].har[k].postData[1])
       /\ C20_Cut(answer[1].har[k].text)


\* the request ids of the entries of a HAR
C21_Ids(har) == [k \in DOMAIN har |-> har[k].requestId]

\* the state of the worker is idle
Idle == debuggeeId = None /\ capturedRequests = << >> /\ ~isCapturing

\* C21: the HAR that a stopCapture returns holds, in the order of capture,
\* an entry for every request that was recorded when its message arrived
\* and that has a response and has not failed, whatever was handled while
\* the stopCapture was waiting.
C21_HarHoldsEveryRecordedRequest ==
  [][\A c \in Slots :
       (calls[c].kind = "stopCapture" /\ calls'[c] = Free)
         => LET expected == C21_Ids(convertToHAR(calls[c].seen, heap'))
                got == C21_Ids(answer'[1].har)
                Expected(id) == \E k \in DOMAIN expected : expected[k] = id
            IN SelectSeq(got, Expected) = expected]_vars

\* C22: a startCapture whose attach fails, or whose Network.enable fails or
\* is refused, is answered with success false and an error message, and
\* leaves the worker idle; every other startCapture is answered with
\* success.
C22_FailedStartAnswersAndCleansUp ==
  [][\A c \in Slots :
       (calls[c].kind = "startCapture" /\ calls'[c] = Free)
         => /\ answer' # None
            /\ answer'[1].to = "startCapture"
            /\ (calls[c].pc = "attach" \/ calls[c].target[1] \notin attached)
                 => ~answer'[1].success
            /\ ~answer'[1].success
                 => /\ answer'[1].error # ""
                    /\ debuggeeId' = None
                    /\ capturedRequests' = << >>
                    /\ ~isCapturing']_vars

\* Network.enable has failed for a debugger that was attached, the message
\* was answered with the error and the worker is idle
C22_Witness ==
  /\ answer = Failure("startCapture", "Cannot enable")
  /\ attached # {}
  /\ Idle
  /\ \A c \in Slots : calls[c] = Free

\* C23: in every state of the worker, isCapturing is true exactly when
\* debuggeeId is not null, and capturedRequests is empty when debuggeeId is
\* null.
C23_FlagsAgree ==
  /\ isCapturing <=> debuggeeId # None
  /\ debuggeeId = None => capturedRequests = << >>

\* a stopCapture is waiting for its detach, a startCapture for its attach,
\* a request is recorded and the state is the one of a capture
C23_Witness ==
  /\ \E c \in Slots : calls[c].kind = "stopCapture" /\ calls[c].pc = "detach"
  /\ \E c \in Slots : calls[c].kind = "startCapture" /\ calls[c].pc = "attach"
  /\ heap # << >>
  /\ isCapturing

\* the extract click handler of the popup after the answer to stopCapture:
\* the local flag, the label of the button and the status line
PopupAfterStop(response) ==
  IF response.success
  THEN [isCapturing |-> FALSE, button |-> "Record API Requests",
        status |-> "processed"]
  ELSE [isCapturing |-> FALSE, button |-> "Record API Requests",
        status |-> "Error: " \o (IF response.error # "" THEN response.error
                                 ELSE "Failed to stop capture")]

\* C24: a stopCapture message that arrives while debuggeeId is null is
\* answered with success false, the error 'No capture in progress' and no
\* HAR, leaves debuggeeId, capturedRequests and isCapturing as they were,
\* and the popup that sent it shows the error and is idle again.
C24_StopWithoutCaptureFails ==
  [][(StopCaptureMessage /\ debuggeeId = None)
       => /\ answer' = Failure("stopCapture", "No capture in progress")
          /\ answer'[1].har = << >>
          /\ UNCHANGED <<debuggeeId, capturedRequests, isCapturing, calls>>
          /\ PopupAfterStop(answer'[1]) =
               [isCapturing |-> FALSE, button |-> "Record API Requests",
                status |-> "Error: No capture in progress"]]_vars

\* a capture has started, the debugger was detached by the browser, and the
\* stopCapture that followed was answered with the error
C24_Witness ==
  /\ answer = Failure("stopCapture", "No capture in progress")
  /\ listening
  /\ attached = {}
  /\ Idle

\* C25: when the worker is idle and no message is being handled, no
\* debugger is attached.
C25_IdleMeansDetached ==
  (Idle /\ \A c \in Slots : calls[c] = Free) => attached = {}

\* a capture is established: its startCapture has succeeded
Established ==
  /\ debuggeeId # None
  /\ \A c \in Slots : calls[c].kind # "startCapture"

\* C26: the completion of a stopCapture that was in progress when the
\* startCapture of the established capture arrived leaves debuggeeId,
\* capturedRequests and isCapturing as they are.
C26_StaleStopLeavesSession ==
  [][\A c \in Slots :
       (/\ calls[c].kind = "stopCapture"
        /\ calls[c].stale
        /\ calls'[c] = Free
        /\ Established)
         => UNCHANGED <<debuggeeId, capturedRequests, isCapturing>>]_vars


\* a startCapture or stopCapture message is being handled
Busy == \E c \in Slots : calls[c].pc # "free"

\* C27: provided the browser runs every callback, the messages that are
\* being handled are eventually all answered: the slot of every invocation
\* becomes free, which happens in the step that sends its one response.
C27_EveryMessageIsAnswered == Busy ~> ~Busy

\* a stopCapture was answered with a HAR whose entry has no text although
\* its request had finished loading: the fetch of its body resolved
\* without a body
C27_Witness ==
  /\ answer # None
  /\ answer[1].to = "stopCapture"
  /\ answer[1].success
  /\ commands = {}
  /\ \E k \in DOMAIN answer[1].har :
       /\ answer[1].har[k].text = Literal("")
       /\ \E ref \in DOMAIN heap :
            /\ heap[ref].requestId = answer[1].har[k].requestId
            /\ heap[ref].loadingFinished

(***************************************************************************)
(* The popup of the extension (chrome-extension/popup.js), the port of the *)
(* classifier and of the tagged formatter that it calls                    *)
(* (chrome-extension/formatter.js), and the conversion of the captured     *)
(* requests to HAR entries (background.js, convertToHAR) with the request  *)
(* headers and the MIME types that the capture layer above leaves out.     *)
(* The variables are those of the command line: entries holds              *)
(* capturedHAR.log.entries, selected the filtered list, formatted the      *)
(* records, sections and output the report, lastCall the function that was *)
(* called and what the popup shows.                                        *)
(***************************************************************************)
\* formatter.js: isJSONRequest
isJSONRequest_ext(entry) ==
  LET contentType ==
        Or(Or(PostDataMimeType(entry),
              ContentTypeHeader(entry.request.headers)), JStr("")).s
  IN Return(Includes(contentType, "application/json"))

\* formatter.js: isGraphQLRequest
isGraphQLRequest_ext(entry) ==
  IF ~isJSONRequest_ext(entry).value THEN Return(FALSE)
  ELSE LET postData == PostDataText(entry)
       IN IF ~Truthy(postData) THEN Return(FALSE)
          ELSE LET parsed == JSONParse(postData.s)
               IN TryCatch(IF parsed.raised THEN Throw(FALSE)
                           ELSE HasGraphQLField(parsed.value),
                           Return(FALSE))

\* formatter.js: filterJSONAndGraphQLEntries; isJSONResponse_ext never throws
filterJSONAndGraphQLEntries_ext(es) ==
  LET Test(e) ==
        /\ isJSONRequest_ext(e).value \/ isJSONResponse_ext(e).value
        /\ e.response.content.text # None
  IN Return(SelectSeq(es, Test))

\* formatter.js: formatEntry
formatEntry_ext(entry, index) ==
  LET requestBody == parseJSONSafely(PostDataText(entry))
      responseBody == parseJSONSafely(OptStr(entry.response.content.text))
      isGraphQL == Truthy(Or(GetPropOpt(requestBody, "operationName"),
                             GetPropOpt(requestBody, "query")))
  IN [ index |-> index + 1,
       timestamp |-> entry.startedDateTime,
       duration |-> MathRound(entry.time),
       method |-> entry.request.method,
       url |-> entry.request.url,
       status |-> entry.response.status,
       requestBody |-> requestBody,
       responseBody |-> responseBody,
       isGraphQL |-> isGraphQL,
       operationName |-> GetPropOpt(requestBody, "operationName") ]

\* formatter.js: const formatted = entries.map(formatEntry)
FormattedByExt(es) == [i \in DOMAIN es |-> formatEntry_ext(es[i], i - 1)]

\* formatter.js: formatForLLM.  After the map its lines 65-112 are, statement
\* for statement, those of the tagged formatter of the command line, whose
\* operators build the sections here
formatForLLM_ext(es) == Join(formatForLLMSections(FormattedByExt(es)), "\n")

\* a request as onDebuggerEvent records it: the headers are the entries of
\* an object, in insertion order; the response is absent until
\* Network.responseReceived
Captured(headers, postData, response, failed) ==
  [ request |-> [headers |-> headers, postData |-> postData],
    response |-> response, failed |-> failed ]

CapturedResponse(mimeType, body) == [mimeType |-> mimeType, body |-> body]

\* the headers of a captured request: none, or a content type under one
\* letter case of its name, alone or after another header
CapturedHeaders ==
  {<< >>, << Header("accept", "*/*") >>}
  \cup { pre \o << Header(n, v) >> :
           pre \in {<< >>, << Header("accept", "*/*") >>},
           n \in {"content-type", "Content-Type", "CONTENT-TYPE"},
           v \in {"application/json", "text/plain"} }

CapturedRequests ==
  { Captured(hs, pd, rs, f) :
      hs \in CapturedHeaders,
      pd \in {None, Some(""), Some(Stringify(GqlQueryOnly))},
      rs \in {None, Some(CapturedResponse("application/json", Some("{}"))),
              Some(CapturedResponse("text/html", None))},
      f \in BOOLEAN }

\* requests whose place in the list shows: kept and dropped, with a body
\* under a lower-case and a capitalised content type
OrderedCaptured ==
  { Captured(<< Header(n, "text/plain") >>, Some(Stringify(GqlQueryOnly)),
             Some(CapturedResponse("application/json", Some("{}"))), f) :
      n \in {"content-type", "Content-Type"}, f \in BOOLEAN }

CapturedLists ==
  Singletons(CapturedRequests) \cup SeqsUpTo(OrderedCaptured, MaxEntries)

\* r.request.headers?.['content-type']: the property of that very name
HeaderProperty(headers, key) ==
  LET hits == { i \in DOMAIN headers : headers[i].name = key }
  IN IF hits = {} THEN JUndefined
     ELSE JStr(headers[CHOOSE i \in hits : TRUE].value)

\* background.js: the filter of convertToHAR
Kept(requests) ==
  LET Test(r) == r.response # None /\ ~r.failed
  IN SelectSeq(requests, Test)

\* background.js: the entry that convertToHAR makes of one request.  An
\* absent or empty postData gives no postData; the time stamps, the status
\* and the URL are those of HAREntry
ConvertedEntry(r) ==
  LET postData == OptStr(r.request.postData)
      body == OptStr(r.response[1].body)
  IN HAREntry("https://api.example.com/x", r.request.headers,
              IF Truthy(postData)
              THEN Some(PostData(
                     Or(HeaderProperty(r.request.headers, "content-type"),
                        JStr("application/json")).s,
                     postData.s))
              ELSE None,
              Some(r.response[1].mimeType),
              Some(Or(body, JStr("")).s))

\* background.js: the entries of convertToHAR(requests).log
ConvertedEntries(requests) ==
  LET kept == Kept(requests)
  IN [i \in DOMAIN kept |-> ConvertedEntry(kept[i])]

\* stopCapture answers with convertToHAR(capturedRequests), which the popup
\* keeps in capturedHAR
ConvertToHAR ==
  /\ pc = "start"
  /\ pc' = "converted"
  /\ \E requests \in CapturedLists :
       /\ entries' = ConvertedEntries(requests)
       /\ lastCall' = [fn |-> "convertToHAR", arg |-> requests,
                       ret |-> Return(TRUE)]
  /\ UNCHANGED <<selected, formatted, sections, output, format, file,
                 stderr, exitCode>>
  /\ UNCHANGED captureVars

\* popup.js: the text of the statistics line
StatsText(total, graphqlCount, restCount) ==
  "Found " \o ToString(total) \o " API requests ("
    \o ToString(graphqlCount) \o " GraphQL, " \o ToString(restCount)
    \o " REST)"

\* popup.js: what processHAR shows for a list that the filter leaves empty
\* or not; capturedHAR.log.entries is always there, convertToHAR made it
Shown(es, filtered) ==
  IF Len(filtered) = 0
  THEN [ status |-> "No JSON or GraphQL requests found",
         stats |-> "Total requests captured: " \o ToString(Len(es)),
         graphqlCount |-> 0, restCount |-> 0 ]
  ELSE LET graphqlCount ==
             Cardinality({ i \in DOMAIN filtered :
                             isGraphQLRequest_ext(filtered[i]).value })
           restCount == Len(filtered) - graphqlCount
       IN [ status |-> "Complete! Click \"Copy to Clipboard\" to copy.",
            stats |-> StatsText(Len(filtered), graphqlCount, restCount),
            graphqlCount |-> graphqlCount, restCount |-> restCount ]

\* popup.js: processHAR, on the entries of a file or of a conversion
ProcessHAR ==
  /\ pc \in {"start", "converted"}
  /\ file = "ok"
  /\ pc' = "processed"
  /\ LET filtered == filterJSONAndGraphQLEntries_ext(entries).value
     IN /\ selected' = filtered
        /\ formatted' = FormattedByExt(filtered)
        /\ sections' = IF Len(filtered) = 0 THEN << >>
                       ELSE formatForLLMSections(FormattedByExt(filtered))
        /\ output' = IF Len(filtered) = 0 THEN ""
                     ELSE formatForLLM_ext(filtered)
        /\ lastCall' = [fn |-> "processHAR", arg |-> 0,
                        ret |-> Return(Shown(entries, filtered))]
  /\ UNCHANGED <<entries, format, file, stderr, exitCode>>
  /\ UNCHANGED captureVars

\* direct calls of the functions of formatter.js
CallExtClassifier ==
  \E i \in DOMAIN entries :
    \/ Call("formatter.js:isJSONRequest", i, isJSONRequest_ext(entries[i]))
    \/ Call("formatter.js:isJSONResponse", i, isJSONResponse_ext(entries[i]))
    \/ Call("formatter.js:isGraphQLRequest", i,
            isGraphQLRequest_ext(entries[i]))

CallExtFilter ==
  Call("formatter.js:filterJSONAndGraphQLEntries", 0,
       filterJSONAndGraphQLEntries_ext(entries))

CallExtFormatForLLM ==
  Call("formatter.js:formatForLLM", 0, Return(formatForLLM_ext(entries)))

InitExtension == Init /\ file = "ok"

NextExtension ==
  \/ ConvertToHAR
  \/ ProcessHAR
  \/ CallExtClassifier
  \/ CallExtFilter
  \/ CallExtFormatForLLM

SpecExtension == InitExtension /\ [][NextExtension]_vars

(***************************************************************************)
(* Claims on the conversion, the popup and the port of the formatter.      *)
(***************************************************************************)
\* C28: when convertToHAR has converted the captured requests, every entry
\* with a body whose request was sent with a content-type header, under any
\* letter case of the header's name, has that header's value as the MIME
\* type of its body, and isJSONRequest does not hold of it when that value
\* is no JSON type.
C28_BodyMimeTypeFollowsHeader ==
  pc = "converted" =>
    LET kept == Kept(lastCall.arg)
    IN \A i \in DOMAIN entries :
         LET sent == ContentTypeHeader(kept[i].request.headers)
         IN (entries[i].request.postData # None /\ sent.t = "string") =>
              /\ entries[i].request.postData[1].mimeType = sent.s
              /\ ~Includes(sent.s, "application/json")
                   => ~isJSONRequest_ext(entries[i]).value

\* the summary line of the tagged report for the given counts
SummaryLine(total, graphqlCount, restCount) ==
  "<api_requests total=\"" \o ToString(total) \o "\" graphql=\""
    \o ToString(graphqlCount) \o "\" rest=\"" \o ToString(restCount) \o "\">"

\* C29: when processHAR has made a report from a filtered list that is not
\* empty, the first line of the report is the summary line for the GraphQL
\* and REST counts of the statistics line that the popup shows.
C29_StatisticsAgreeWithReport ==
  (pc = "processed" /\ Len(selected) > 0) =>
    LET shown == lastCall.ret.value
    IN /\ shown.stats
            = StatsText(Len(selected), shown.graphqlCount, shown.restCount)
       /\ sections[1]
            = SummaryLine(Len(selected), shown.graphqlCount, shown.restCount)

====
